---- MODULE Spec2Model ----
(***************************************************************************)
(* AmericaScouted: the weekly snapshot store, the week index cached by the *)
(* web application, the player and match aggregators of app.py and the     *)
(* position helpers of weekly_player_data.py.                              *)
(*                                                                         *)
(* A pandas DataFrame is a record [cols, rows]: cols is the set of column  *)
(* names, rows the sequence of row records.  A missing text cell is NaN,   *)
(* a numeric cell is <<n>> or <<>> (blank).                                *)
(***************************************************************************)
EXTENDS Integers, Sequences, FiniteSets, TLC

VARIABLES
    playerFiles,      \* data/Players: file name <<file_gender, code>> -> rows
    playerCols,       \* header of the player snapshot files
    available_weeks,  \* AmericaScoutedApp.available_weeks (cached week index)
    started,          \* the AmericaScoutedApp object has been constructed
    resp,             \* what the last call returned, with its arguments
    positions_series, \* the raw Position tags collected for one player
    dominant,         \* the Dominant Position computed from positions_series
    matchFiles,       \* data/Matches: week code of matches_{code}.csv -> rows
    matchCols,        \* header of the match snapshot files
    data_dir_exists,  \* os.path.exists(PLAYER_DIR)
    unreadable,       \* names of the player files pd.read_csv raises on
    calls,            \* request threads: the locals of the aggregation call each runs
    main,             \* weekly_player_data.main: its position, periods and saved files
    fetch,            \* get_match_shots_sot_by_boxscore: the sequential fetch loop
    pool,             \* get_match_shots_sot_by_boxscore: the thread pool of the scripts copy
    logo_files,       \* the file names in static/logos
    logo_index_cache  \* the lru_cache slot of _logo_index

vars == <<playerFiles, playerCols, available_weeks, started, resp,
          positions_series, dominant, matchFiles, matchCols, data_dir_exists,
          unreadable, calls, main, fetch, pool, logo_files, logo_index_cache>>
scriptVars == <<main, fetch, pool>>
logoVars == <<logo_files, logo_index_cache>>
matchVars == <<matchFiles, matchCols>>
serverVars == <<playerFiles, playerCols, available_weeks, started, resp, matchVars,
               data_dir_exists, unreadable, calls>>
appVars == <<serverVars, scriptVars, logoVars>>
posVars == <<positions_series, dominant>>
appVarsButCalls == <<playerFiles, playerCols, available_weeks, started, resp, matchVars,
                     data_dir_exists, unreadable, scriptVars, logoVars>>

(***************************************************************************)
(* Bounds of the model.                                                    *)
(***************************************************************************)
MaxRows == 2          \* snapshot rows in the whole player store
MaxGames == 3         \* raw Position tags collected for one player
MaxMatchRows == 2     \* snapshot rows in the whole match store
MaxFiles == 3         \* files in the player directory when only names matter

(***************************************************************************)
(* Values.                                                                 *)
(***************************************************************************)
NaN == "NaN"          \* pandas missing value of a text column
NoCol == "<no column>" \* filler of a field whose column the frame lacks
NoResp == [op |-> "none"]
Threads == {1, 2}
NoFrame == [cols |-> {"<no result>"}, rows |-> <<>>]
IdleCall == [op |-> "idle", end_week_code |-> 0, gender |-> "men", pc |-> 0,
             all_data |-> <<>>, appended |-> FALSE, done |-> FALSE,
             result |-> NoFrame, interleaved |-> FALSE]
NoCalls == [t \in Threads |-> IdleCall]

GENDERS == {"men", "women"}
WeekCodes == {20250817, 20250824, 20250831}
CutoffCodes == WeekCodes

\* Python's order of the strings that occur as grouping values.
StrOrder == <<"Amy Roe", "D1", "Jane Doe", "Team A", "Westmont", "d1", "d2", "d3",
              "men", "naia", "women">>
StrPos(s) == CHOOSE i \in 1..Len(StrOrder) : StrOrder[i] = s
StrLess(a, b) == StrPos(a) < StrPos(b)

\* Tuples of strings of one length, compared as Python compares tuples.
KeyLess(k1, k2) ==
    \E i \in 1..Len(k1) :
        /\ \A j \in 1..(i - 1) : k1[j] = k2[j]
        /\ StrLess(k1[i], k2[i])

RECURSIVE SortKeys(_)
SortKeys(S) ==
    IF S = {} THEN <<>>
    ELSE LET m == CHOOSE x \in S : \A y \in S \ {x} : KeyLess(x, y)
         IN  <<m>> \o SortKeys(S \ {m})

\* date_a < date_b for the dates of two 8-digit codes (year, month, day).
DateBefore(a, b) ==
    LET da == <<a \div 10000, (a \div 100) % 100, a % 100>>
        db == <<b \div 10000, (b \div 100) % 100, b % 100>>
    IN  \/ da[1] < db[1]
        \/ (da[1] = db[1] /\ da[2] < db[2])
        \/ (da[1] = db[1] /\ da[2] = db[2] /\ da[3] < db[3])

RECURSIVE SortCodes(_)
SortCodes(S) ==
    IF S = {} THEN <<>>
    ELSE LET m == CHOOSE x \in S : \A y \in S : ~DateBefore(y, x)
         IN  <<m>> \o SortCodes(S \ {m})

SeqsUpTo(S, n) == UNION {[1..k -> S] : k \in 1..n}

(***************************************************************************)
(* Player snapshot files.                                                  *)
(***************************************************************************)
PlayerColsFull == {"Name", "Team", "Gender", "Division", "Dominant Position",
                   "Goals", "Assists", "Points"}
PlayerSchemas == {PlayerColsFull}

\* The Points cell the scrape stores: Goals * 2 + Assists, missing when either is.
StoredPoints(goals, assists) ==
    IF goals = <<>> \/ assists = <<>> THEN <<>> ELSE <<goals[1] * 2 + assists[1]>>

\* The rows a weekly scrape can hold for one player (Gender comes from the file).
PlayerRow(name, team, division, position, goals, assists) ==
    [Name |-> name, Team |-> team, Division |-> division,
     Dominant_Position |-> position, Goals |-> goals, Assists |-> assists,
     Points |-> StoredPoints(goals, assists)]
ScrapedRows ==
    { PlayerRow("Jane Doe", "Team A", "d1", "Defender", <<1>>, <<0>>),
      PlayerRow("Jane Doe", "Team A", "d1", "Midfielder", <<2>>, <<1>>),
      PlayerRow("Jane Doe", "Team A", "d1", NaN, <<>>, <<1>>),
      PlayerRow("Jane Doe", "Team A", "d2", "Defender", <<1>>, <<0>>),
      PlayerRow("Jane Doe", "Team A", "d2", "Midfielder", <<2>>, <<1>>),
      PlayerRow("Jane Doe", "Team A", NaN, "Midfielder", <<2>>, <<1>>),
      PlayerRow("Amy Roe", "Westmont", "d1", "Defender", <<1>>, <<0>>) }

\* A saved file holds one row per key_cols group (groupby(key_cols) before to_csv).
OneRowPerKey(rows) ==
    \A i, j \in 1..Len(rows) :
        i # j => <<rows[i].Name, rows[i].Team, rows[i].Division>>
                 # <<rows[j].Name, rows[j].Team, rows[j].Division>>

WithGender(r, g) ==
    [Name |-> r.Name, Team |-> r.Team, Gender |-> g, Division |-> r.Division,
     Dominant_Position |-> r.Dominant_Position, Goals |-> r.Goals, Assists |-> r.Assists,
     Points |-> r.Points]

\* f"{file_gender}_players_{code}.csv"
FileGender(gender) == IF gender \in {"men", "women"} THEN gender \o "s" ELSE gender
PlayerFileName(gender, code) == <<FileGender(gender), code>>
PlayerFileNames == {PlayerFileName(g, w) : g \in GENDERS, w \in WeekCodes}

RECURSIVE SumLens(_, _)
SumLens(files, names) ==
    IF names = {} THEN 0
    ELSE LET n == CHOOSE x \in names : TRUE
         IN  Len(files[n]) + SumLens(files, names \ {n})
StoredRows(files) == SumLens(files, DOMAIN files)

(***************************************************************************)
(* Week index.                                                             *)
(***************************************************************************)
\* len(week_code) of a code written in digits.
RECURSIVE CodeLength(_)
CodeLength(n) == IF n < 10 THEN 1 ELSE 1 + CodeLength(n \div 10)

IsLeap(y) == y % 4 = 0 /\ (y % 100 # 0 \/ y % 400 = 0)
DaysInMonth(y, m) ==
    IF m = 2 THEN (IF IsLeap(y) THEN 29 ELSE 28)
    ELSE IF m \in {4, 6, 9, 11} THEN 30 ELSE 31

\* The date of an 8-digit code: %Y takes four digits, %m two and %d two.
DateOf(code) == <<code \div 10000, (code \div 100) % 100, code % 100>>

\* A parse that takes any eight digits for a date.
ParsesAlways(code) == TRUE

\* datetime.strptime(week_code, '%Y%m%d') does not raise ValueError.
ParsesAsDate(code) ==
    LET date == DateOf(code)
    IN  /\ date[2] \in 1..12
        /\ date[3] \in 1..DaysInMonth(date[1], date[2])

\* filename.split('_')[-1].replace('.csv', '')
WeekCodeOf(fn) == fn[2]

get_available_weeks(exists, files) ==
    IF exists
    THEN SortCodes({c \in {WeekCodeOf(fn) : fn \in DOMAIN files} :
                       CodeLength(c) = 8 /\ ParsesAsDate(c)})
    ELSE <<>>

(***************************************************************************)
(* Player aggregator.                                                      *)
(***************************************************************************)
numeric_cols == <<"Goals", "Assists">>
group_cols_player_only == <<"Name", "Team", "Gender">>
group_cols == <<"Name", "Team", "Gender", "Division">>

\* pd.to_numeric(col, errors='coerce').fillna(0)
ToNumeric(cell) == IF cell = <<>> THEN 0 ELSE cell[1]

Cell(row, col) ==
    CASE col = "Name" -> row.Name
      [] col = "Team" -> row.Team
      [] col = "Gender" -> row.Gender
      [] col = "Division" -> row.Division
      [] col = "Dominant Position" -> row.Dominant_Position
      [] col = "Goals" -> row.Goals
      [] col = "Assists" -> row.Assists
      [] col = "Points" -> row.Points

\* [col for col in wanted if col in combined_df.columns]
RECURSIVE AvailableCols(_, _)
AvailableCols(wanted, cols) ==
    IF wanted = <<>> THEN <<>>
    ELSE (IF Head(wanted) \in cols THEN <<Head(wanted)>> ELSE <<>>)
         \o AvailableCols(Tail(wanted), cols)

\* if week['code'] <= end_week_code (a rolling window would read one week only)
CutoffRolling(code, end_week_code) == code = end_week_code
Cutoff(code, end_week_code) == code <= end_week_code

\* data/Players as load_cumulative_data meets it: for each file name, whether
\* pd.read_csv can parse the file and the rows it holds.
Directory(files, unread) ==
    [fn \in DOMAIN files |-> [readable |-> fn \notin unread, rows |-> files[fn]]]
PlayerDir == Directory(playerFiles, unreadable)

\* A read without the try/except of the loop: the rows of a file are taken even
\* when the file cannot be parsed.
ReadUnguarded(file) == TRUE

\* try: df = pd.read_csv(filepath); all_data.append(df) / except: pass
ReadSucceeds(file) == file.readable

\* The rows of the files load_cumulative_data reads, in the order it reads them.
RECURSIVE ConcatWeeks(_, _, _, _)
ConcatWeeks(files, weeks, end_week_code, gender) ==
    IF weeks = <<>> THEN <<>>
    ELSE LET code == Head(weeks)
             fn == PlayerFileName(gender, code)
             part == IF /\ Cutoff(code, end_week_code)
                        /\ fn \in DOMAIN files
                        /\ ReadSucceeds(files[fn])
                     THEN files[fn].rows ELSE <<>>
         IN  part \o ConcatWeeks(files, Tail(weeks), end_week_code, gender)

\* Whether load_cumulative_data appended any frame to all_data.
AnyLoaded(files, weeks, end_week_code, gender) ==
    \E i \in 1..Len(weeks) :
        /\ Cutoff(weeks[i], end_week_code)
        /\ PlayerFileName(gender, weeks[i]) \in DOMAIN files
        /\ ReadSucceeds(files[PlayerFileName(gender, weeks[i])])

GroupKey(row, gcols) == [i \in 1..Len(gcols) |-> Cell(row, gcols[i])]

\* groupby drops the rows that miss a grouping value (dropna=True).
HasKey(row, gcols) == \A i \in 1..Len(gcols) : Cell(row, gcols[i]) # NaN

RECURSIVE SumCol(_, _, _, _)
SumCol(rows, col, key, gcols) ==
    IF rows = <<>> THEN 0
    ELSE (IF HasKey(Head(rows), gcols) /\ GroupKey(Head(rows), gcols) = key
          THEN ToNumeric(Cell(Head(rows), col)) ELSE 0)
         + SumCol(Tail(rows), col, key, gcols)

\* groupby(...)['Dominant Position'].last(): the last non-null value of the group.
RECURSIVE LastPosition(_, _, _)
LastPosition(rows, key, gcols) ==
    IF rows = <<>> THEN NaN
    ELSE LET r == rows[Len(rows)]
         IN  IF /\ HasKey(r, gcols)
                /\ GroupKey(r, gcols) = key
                /\ r.Dominant_Position # NaN
             THEN r.Dominant_Position
             ELSE LastPosition(SubSeq(rows, 1, Len(rows) - 1), key, gcols)

KeyField(key, gcols, col) ==
    IF \E i \in 1..Len(gcols) : gcols[i] = col
    THEN key[CHOOSE i \in 1..Len(gcols) : gcols[i] = col]
    ELSE NoCol

GroupKeys(rows, gcols) ==
    {GroupKey(rows[i], gcols) : i \in {j \in 1..Len(rows) : HasKey(rows[j], gcols)}}

\* groupby(...)['Dominant Position'].first() would take the oldest value.
RECURSIVE FirstPosition(_, _, _)
FirstPosition(rows, key, gcols) ==
    IF rows = <<>> THEN NaN
    ELSE LET r == Head(rows)
         IN  IF /\ HasKey(r, gcols)
                /\ GroupKey(r, gcols) = key
                /\ r.Dominant_Position # NaN
             THEN r.Dominant_Position
             ELSE FirstPosition(Tail(rows), key, gcols)

PositionOfGroup(rows, key, gcols) == LastPosition(rows, key, gcols)

\* Points as the sum of the stored weekly Points cells.
PointsSummed(rows, key, gcols) == SumCol(rows, "Points", key, gcols)

\* aggregated['Points'] = aggregated['Goals'] * 2 + aggregated['Assists']
PointsOf(rows, key, gcols) ==
    SumCol(rows, "Goals", key, gcols) * 2 + SumCol(rows, "Assists", key, gcols)

AggregatedRow(rows, key, gcols, cols) ==
    LET goals == SumCol(rows, "Goals", key, gcols)
        assists == SumCol(rows, "Assists", key, gcols)
    IN  [Name |-> KeyField(key, gcols, "Name"),
         Team |-> KeyField(key, gcols, "Team"),
         Gender |-> KeyField(key, gcols, "Gender"),
         Division |-> KeyField(key, gcols, "Division"),
         Goals |-> goals,
         Assists |-> assists,
         Points |-> PointsOf(rows, key, gcols),
         Dominant_Position |->
             IF "Dominant Position" \in cols
             THEN PositionOfGroup(rows, key, gcols) ELSE NoCol]

EmptyFrame == [cols |-> {}, rows |-> <<>>]

Aggregate(rows, cols) ==
    LET gcols == AvailableCols(group_cols, cols)
        ncols == AvailableCols(numeric_cols, cols)
        keys == SortKeys(GroupKeys(rows, gcols))
    IN  IF gcols # <<>> /\ ncols # <<>>
        THEN [cols |-> {gcols[i] : i \in 1..Len(gcols)}
                       \cup {ncols[i] : i \in 1..Len(ncols)}
                       \cup (IF {"Goals", "Assists"} \subseteq cols
                             THEN {"Points"} ELSE {})
                       \cup (cols \cap {"Dominant Position"}),
              rows |-> [i \in 1..Len(keys) |->
                           AggregatedRow(rows, keys[i], gcols, cols)]]
        ELSE EmptyFrame

load_cumulative_data(files, weeks, cols, end_week_code, gender) ==
    IF AnyLoaded(files, weeks, end_week_code, gender)
    THEN Aggregate(ConcatWeeks(files, weeks, end_week_code, gender), cols)
    ELSE EmptyFrame

(***************************************************************************)
(* Match aggregator.                                                       *)
(***************************************************************************)
MatchColsFull == {"gender", "division", "boxscore_id", "home_team_short",
                  "home_team_full", "away_team_short", "away_team_full",
                  "home_team_score", "away_team_score",
                  "home_conference", "away_conference",
                  "home_shots", "home_sot", "away_shots", "away_sot"}
MatchSchemas == { MatchColsFull,
                  MatchColsFull \ {"boxscore_id"},
                  MatchColsFull \ {"home_conference"},
                  MatchColsFull \ {"away_conference"},
                  MatchColsFull \ {"gender"} }

MatchRow(gender, division, boxscore_id, home, away, home_score, away_score, home_conference, away_conference) ==
    [gender |-> gender, division |-> division, boxscore_id |-> boxscore_id,
     home_team_short |-> home, home_team_full |-> home \o " University",
     away_team_short |-> away, away_team_full |-> away \o " University",
     home_team_score |-> home_score, away_team_score |-> away_score,
     home_conference |-> home_conference, away_conference |-> away_conference,
     home_shots |-> <<>>, home_sot |-> <<>>, away_shots |-> <<>>, away_sot |-> <<>>]

\* The row after the left merge with the shots row of its boxscore.
WithShots(row, home_shots, home_sot, away_shots, away_sot) ==
    [row EXCEPT !.home_shots = <<home_shots>>, !.home_sot = <<home_sot>>,
                !.away_shots = <<away_shots>>, !.away_sot = <<away_sot>>]

\* The rows a weekly scoreboard scrape can hold.  The first two are one fixture
\* listed by the d1 pass (not yet played) and by the d2 pass (final score).
ScrapedMatches ==
    { MatchRow("men", "d1", "12345", "Team A", "Westmont", <<>>, <<>>, "ACC", "Big East"),
      MatchRow("men", "d2", "12345", "Team A", "Westmont", <<2>>, <<1>>, "ACC", "Big East"),
      MatchRow("men", "d1", "67890", "Team A", "Westmont", <<1>>, <<1>>, "ACC", "CACC"),
      MatchRow("men", "d3", NaN, "Westmont", "Team A", <<0>>, <<3>>, " nescac ", NaN),
      MatchRow("men", "d3", NaN, "Team A", "Westmont", <<0>>, <<0>>, "NESCAC", "Unlisted"),
      MatchRow("Women", "d1", "12345", "Team A", "Westmont", <<4>>, <<0>>, "ACC", "ACC"),
      MatchRow(NaN, "d2", "67890", "Westmont", "Team A", <<>>, <<>>, "CACC", "CACC") }

\* A row as a file with header cols holds it: a column the header lacks has no
\* cell.
WriteColumns(row, cols) ==
    [f \in DOMAIN row |-> IF f \in cols THEN row[f] ELSE NoCol]

\* str.lower() and str.strip() on the texts that occur; astype(str) of a missing
\* value is 'nan'.
Lower(s) ==
    CASE s = "Women" -> "women" [] s = "Men" -> "men"
      [] s = "ACC" -> "acc" [] s = "Big East" -> "big east" [] s = "CACC" -> "cacc"
      [] s = "NESCAC" -> "nescac" [] s = "Unlisted" -> "unlisted"
      [] s = "WCC" -> "wcc" [] s = "PacWest" -> "pacwest"
      [] s = "D1" -> "d1" [] s = "D2" -> "d2"
      [] OTHER -> s
Strip(s) == CASE s = " nescac " -> "nescac" [] s = " " -> "" [] OTHER -> s
AsStr(s) == IF s = NaN THEN "nan" ELSE s

\* The conference -> division dict literal; a key written twice keeps its last
\* value ('ind' is d3).
ConfD1 == {"acc", "america east", "american", "asun", "atlantic 10", "big east",
           "big south", "big ten", "big west", "caa", "cusa", "di independent",
           "horizon", "ivy league", "maac", "mvc", "nec", "ovc", "patriot", "socon",
           "summit league", "sun belt", "wac", "wcc"}
ConfD2 == {"cacc", "ccaa", "conference carolinas", "dii independent", "ecc", "g-mac",
           "gac", "gliac", "glvc", "great northwest", "gulf south", "ind", "lone star",
           "mec", "ne10", "pacwest", "peach belt", "psac", "rmac", "sac",
           "sunshine state"}
ConfD3 == {"amcc", "american rivers", "asc", "atlantic east", "c2c", "cciw", "ccs",
           "centennial", "cne", "cunyac", "diii independent", "empire 8",
           "great northeast", "hcac", "ind", "landmark", "liberty league",
           "little east", "mac commonwealth", "mac freedom", "mascac", "miac",
           "michigan intercol. ath. assn.", "mwc", "nacc", "ncac", "necc", "nescac",
           "newmac", "njac", "non-ncaa org", "north atlantic", "nwc", "oac", "odac",
           "pac", "saa", "scac", "sciac", "skyline", "sliac", "sunyac", "uaa", "umac",
           "united east", "usa south", "wiac"}
conf_map(c) ==
    IF c \in ConfD3 THEN "d3"
    ELSE IF c \in ConfD2 THEN "d2"
    ELSE IF c \in ConfD1 THEN "d1"
    ELSE NaN

\* A gender filter that compares the texts as written.
RECURSIVE FilterGenderExact(_, _)
FilterGenderExact(rows, gender) ==
    IF rows = <<>> THEN <<>>
    ELSE (IF Head(rows).gender = gender THEN <<Head(rows)>> ELSE <<>>)
         \o FilterGenderExact(Tail(rows), gender)

\* df[df['gender'].str.lower() == gender.lower()]
RECURSIVE FilterGender(_, _)
FilterGender(rows, gender) ==
    IF rows = <<>> THEN <<>>
    ELSE (IF Head(rows).gender # NaN /\ Lower(Head(rows).gender) = Lower(gender)
          THEN <<Head(rows)>> ELSE <<>>)
         \o FilterGender(Tail(rows), gender)

\* read_csv and the gender filter of one file.  A gender column with no text in
\* it is read as numbers, .str raises on it and the except clause skips the file.
ReadFails(rows, cols) ==
    /\ "gender" \in cols
    /\ rows # <<>>
    /\ \A i \in 1..Len(rows) : rows[i].gender = NaN
ReadMatchFile(rows, cols, gender) ==
    IF ReadFails(rows, cols) THEN <<>>
    ELSE IF "gender" \in cols THEN FilterGender(rows, gender)
    ELSE rows

\* The rows load_match_data reads, in the order it reads them.
RECURSIVE ConcatMatches(_, _, _, _)
ConcatMatches(files, weeks, cols, gender) ==
    IF weeks = <<>> THEN <<>>
    ELSE LET code == Head(weeks)
             part == IF code \in DOMAIN files
                     THEN ReadMatchFile(files[code], cols, gender)
                     ELSE <<>>
         IN  part \o ConcatMatches(files, Tail(weeks), cols, gender)

\* all_data is non-empty: some indexed week has a match file that was read.
AnyMatchFileLoaded(files, weeks, cols) ==
    \E i \in 1..Len(weeks) :
        weeks[i] \in DOMAIN files /\ ~ReadFails(files[weeks[i]], cols)

\* drop_duplicates(subset=['boxscore_id'], keep='last')
RECURSIVE DropDuplicatesKeepLast(_)
DropDuplicatesKeepLast(rows) ==
    IF rows = <<>> THEN <<>>
    ELSE LET r == Head(rows)
         IN  (IF \E j \in 2..Len(rows) : rows[j].boxscore_id = r.boxscore_id
              THEN <<>> ELSE <<r>>)
             \o DropDuplicatesKeepLast(Tail(rows))

\* drop_duplicates(subset=['boxscore_id'], keep='first'); missing ids are equal
\* to one another.
RECURSIVE DropDuplicatesKeepFirst(_)
DropDuplicatesKeepFirst(rows) ==
    IF rows = <<>> THEN <<>>
    ELSE LET r == rows[Len(rows)]
             before == SubSeq(rows, 1, Len(rows) - 1)
         IN  DropDuplicatesKeepFirst(before)
             \o (IF \E j \in 1..Len(before) : before[j].boxscore_id = r.boxscore_id
                 THEN <<>> ELSE <<r>>)

\* No row is dropped.
KeepEveryRow(rows) == rows

drop_duplicates(rows) == DropDuplicatesKeepFirst(rows)

\* A recompute that keeps the home side's division for a cross-division game.
NewDivisionHomeSide(row) ==
    LET home_div == conf_map(Lower(Strip(AsStr(row.home_conference))))
    IN  IF home_div # NaN THEN home_div ELSE ""

\* new_div: the common division of the two conferences, else blank.
NewDivision(row) ==
    LET home_div == conf_map(Lower(Strip(AsStr(row.home_conference))))
        away_div == conf_map(Lower(Strip(AsStr(row.away_conference))))
    IN  IF home_div # NaN /\ away_div # NaN /\ home_div = away_div
        THEN home_div ELSE ""

WithDivision(row, division) == [row EXCEPT !.division = division]

\* A recompute that blanks the division when a conference column is absent.
CombineMatchesBlanking(combined, cols) ==
    LET deduped == IF "boxscore_id" \in cols
                   THEN drop_duplicates(combined) ELSE combined
    IN  [cols |-> cols \cup {"division"},
         rows |-> [i \in 1..Len(deduped) |->
                      WithDivision(deduped[i],
                          IF {"home_conference", "away_conference"} \subseteq cols
                          THEN NewDivision(deduped[i]) ELSE "")]]

\* What load_match_data does with the concatenated frames: drop duplicates,
\* recompute the division.
CombineMatches(combined, cols) ==
    LET deduped == IF "boxscore_id" \in cols
                   THEN drop_duplicates(combined) ELSE combined
    IN  IF {"home_conference", "away_conference"} \subseteq cols
        THEN [cols |-> cols \cup {"division"},
              rows |-> [i \in 1..Len(deduped) |->
                           WithDivision(deduped[i], NewDivision(deduped[i]))]]
        ELSE [cols |-> cols, rows |-> deduped]

load_match_data(files, weeks, cols, gender) ==
    IF AnyMatchFileLoaded(files, weeks, cols)
    THEN CombineMatches(ConcatMatches(files, weeks, cols, gender), cols)
    ELSE EmptyFrame

RECURSIVE SumMatchLens(_, _)
SumMatchLens(files, codes) ==
    IF codes = {} THEN 0
    ELSE LET c == CHOOSE x \in codes : TRUE
         IN  Len(files[c]) + SumMatchLens(files, codes \ {c})
StoredMatches(files) == SumMatchLens(files, DOMAIN files)

(***************************************************************************)
(* Division / conference reconciliation and the routes.                    *)
(***************************************************************************)
NoWeek == 0   \* request.args week default when the week index is empty

\* division_corrections.get(r['Team'], r['Division'])
division_corrections(team, division) == IF team = "Westmont" THEN "d2" ELSE division

ApplyCorrections(df) ==
    IF {"Team", "Division"} \subseteq df.cols
    THEN [df EXCEPT !.rows = [i \in 1..Len(df.rows) |->
             [df.rows[i] EXCEPT !.Division =
                 division_corrections(df.rows[i].Team, df.rows[i].Division)]]]
    ELSE df

IsNa(v) == v = NaN \/ v = NoCol

\* A mapping step in which the conference seen last replaces the earlier one.
add_mapping_last(team_to_conf, team_name, conf) ==
    IF IsNa(team_name) \/ IsNa(conf) \/ conf = "" THEN team_to_conf
    ELSE [k \in DOMAIN team_to_conf \cup {Strip(team_name)} |->
             IF k = Strip(team_name) THEN conf ELSE team_to_conf[k]]

\* add_mapping: the first conference seen for a name is kept.
add_mapping(team_to_conf, team_name, conf) ==
    IF IsNa(team_name) \/ IsNa(conf) \/ conf = "" THEN team_to_conf
    ELSE IF Strip(team_name) \in DOMAIN team_to_conf THEN team_to_conf
    ELSE team_to_conf @@ (Strip(team_name) :> conf)

AddRow(team_to_conf, m) ==
    add_mapping(
        add_mapping(
            add_mapping(
                add_mapping(team_to_conf, m.home_team_short, m.home_conference),
                m.home_team_full, m.home_conference),
            m.away_team_short, m.away_conference),
        m.away_team_full, m.away_conference)

\* for _, m in matches_df.iterrows(): ...
RECURSIVE TeamToConf(_)
TeamToConf(rows) ==
    IF rows = <<>> THEN <<>>
    ELSE AddRow(TeamToConf(SubSeq(rows, 1, Len(rows) - 1)), rows[Len(rows)])

\* df['Conference'] = df['Team'].map(team_to_conf), or None without matches.
ConferenceOf(team, matches_df) ==
    IF matches_df.rows = <<>> THEN NaN
    ELSE LET team_to_conf == TeamToConf(matches_df.rows)
         IN  IF team \in DOMAIN team_to_conf THEN team_to_conf[team] ELSE NaN

conference_division_map(c) == conf_map(c)

\* A fallback that writes 'naia' over whatever division an unknown row has.
FinalDivisionAlwaysNaia(division, conference, cols) ==
    LET mapped_div == conference_division_map(Lower(Strip(AsStr(conference))))
    IN  IF mapped_div = NaN THEN "naia"
        ELSE IF "Division" \in cols THEN mapped_div ELSE NaN

\* The Division of one row after the mapping, the NAIA fallback and lower().
FinalDivision(division, conference, cols) ==
    LET norm_conf == Lower(Strip(AsStr(conference)))
        mapped_div == conference_division_map(norm_conf)
        overwritten == IF mapped_div # NaN /\ "Division" \in cols
                       THEN mapped_div ELSE division
        unknown == mapped_div = NaN \/ conference = NaN \/ Strip(AsStr(conference)) = ""
        present == IF "Division" \in cols THEN overwritten ELSE NaN
        filled == IF unknown /\ present = NaN THEN "naia" ELSE present
    IN  IF filled = NaN THEN NaN ELSE Lower(filled)

\* Lines 439-509 of the players route, on a non-empty aggregated frame.
Reconcile(df, matches_df) ==
    LET corrected == ApplyCorrections(df)
    IN  [cols |-> df.cols \cup {"Conference", "Division"},
         rows |-> [i \in 1..Len(corrected.rows) |->
            LET r == corrected.rows[i]
                conference == ConferenceOf(r.Team, matches_df)
            IN  [Name |-> r.Name, Team |-> r.Team, Gender |-> r.Gender,
                 Division |-> FinalDivision(r.Division, conference, df.cols),
                 Goals |-> r.Goals, Assists |-> r.Assists, Points |-> r.Points,
                 Dominant_Position |-> r.Dominant_Position,
                 Conference |-> conference]]]

\* sort_values(by=..., ascending=False): keys[i] is the sort key of rows[i].
RECURSIVE KeyGreater(_, _)
KeyGreater(a, b) ==
    IF a = <<>> THEN FALSE
    ELSE Head(a) > Head(b) \/ (Head(a) = Head(b) /\ KeyGreater(Tail(a), Tail(b)))

RECURSIVE SortDescending(_, _)
SortDescending(rows, keys) ==
    IF rows = <<>> THEN <<>>
    ELSE LET best == CHOOSE i \in 1..Len(rows) :
                        /\ \A j \in 1..Len(rows) : ~KeyGreater(keys[j], keys[i])
                        /\ \A j \in 1..(i - 1) : KeyGreater(keys[i], keys[j])
             Without(q) == [k \in 1..(Len(q) - 1) |-> IF k < best THEN q[k] ELSE q[k + 1]]
         IN  <<rows[best]>> \o SortDescending(Without(rows), Without(keys))

HeadN(rows, n) == SubSeq(rows, 1, IF Len(rows) < n THEN Len(rows) ELSE n)

\* df[df['Division'].astype(str).str.lower() == 'd1'] when the column exists.
RECURSIVE DivisionOneOnly(_, _)
DivisionOneOnly(rows, cols) ==
    IF rows = <<>> THEN <<>>
    ELSE (IF "Division" \in cols => Lower(AsStr(Head(rows).Division)) = "d1"
          THEN <<Head(rows)>> ELSE <<>>)
         \o DivisionOneOnly(Tail(rows), cols)

TopEntry(r) ==
    [name |-> r.Name, team |-> r.Team, goals |-> r.Goals,
     assists |-> r.Assists, points |-> r.Points]

top_scorers(df) ==
    IF df.rows # <<>> /\ "Goals" \in df.cols
    THEN LET d1 == DivisionOneOnly(df.rows, df.cols)
             sorted == SortDescending(d1,
                          [i \in 1..Len(d1) |-> <<d1[i].Goals, d1[i].Points>>])
         IN  [i \in 1..Len(HeadN(sorted, 3)) |-> TopEntry(sorted[i])]
    ELSE <<>>

top_assisters(df) ==
    IF df.rows # <<>> /\ "Assists" \in df.cols
    THEN LET d1 == DivisionOneOnly(df.rows, df.cols)
             sorted == SortDescending(d1,
                          [i \in 1..Len(d1) |->
                              <<d1[i].Assists, d1[i].Goals, d1[i].Points>>])
         IN  [i \in 1..Len(HeadN(sorted, 3)) |-> TopEntry(sorted[i])]
    ELSE <<>>

\* The players listing with every filter at 'all', sorted by Points descending.
players(files, weeks, cols, mfiles, mcols, week, gender) ==
    LET df == load_cumulative_data(files, weeks, cols, week, gender)
    IN  IF week = NoWeek \/ df.rows = <<>> THEN <<>>
        ELSE LET rec == Reconcile(df, load_match_data(mfiles, weeks, mcols, gender)).rows
             IN  SortDescending(rec, [i \in 1..Len(rec) |-> <<rec[i].Points>>])

\* player_data.iloc[0].to_dict(), or the error body.
player_detail(files, weeks, cols, player_name, week, gender) ==
    LET df == load_cumulative_data(files, weeks, cols, week, gender)
        hits == {i \in 1..Len(df.rows) : df.rows[i].Name = player_name}
    IN  IF week = NoWeek THEN [error |-> "No week specified"]
        ELSE IF df.rows = <<>> THEN [error |-> "No data found"]
        ELSE IF hits = {} THEN [error |-> "Player not found"]
        ELSE df.rows[CHOOSE i \in hits : \A j \in hits : i <= j]

\* available_weeks[-1]['code'] if available_weeks else None
LatestWeek(weeks) == IF weeks = <<>> THEN NoWeek ELSE weeks[Len(weeks)]

(***************************************************************************)
(* Score formatting.  Text is a sequence of one-character strings; a float *)
(* is m / 10^e, or inf, or nan.                                            *)
(***************************************************************************)
MaxScoreLen == 3
MaxMantissa == 30

Digits == <<"0", "1", "2", "3", "4", "5", "6", "7", "8", "9">>
DigitChars == {Digits[i] : i \in 1..10}
DigitValue(c) == (CHOOSE i \in 1..10 : Digits[i] = c) - 1
TextAlphabet == {"0", "2", "5", ".", " ", "a", "n"}

NoneScore == [kind |-> "none", m |-> 0, e |-> 0, chars |-> <<>>]
Float(m, e) == [kind |-> "float", m |-> m, e |-> e, chars |-> <<>>]
FloatNan == [kind |-> "nan", m |-> 0, e |-> 0, chars |-> <<>>]
FloatInf == [kind |-> "inf", m |-> 0, e |-> 0, chars |-> <<>>]
Text(chars) == [kind |-> "str", m |-> 0, e |-> 0, chars |-> chars]
ValueError == [kind |-> "error", m |-> 0, e |-> 0, chars |-> <<>>]

RECURSIVE Pow10(_)
Pow10(e) == IF e = 0 THEN 1 ELSE 10 * Pow10(e - 1)

RECURSIVE StripLeft(_)
StripLeft(chars) ==
    IF chars # <<>> /\ Head(chars) = " " THEN StripLeft(Tail(chars)) ELSE chars
RECURSIVE StripRight(_)
StripRight(chars) ==
    IF chars # <<>> /\ chars[Len(chars)] = " "
    THEN StripRight(SubSeq(chars, 1, Len(chars) - 1)) ELSE chars
StripText(chars) == StripRight(StripLeft(chars))

IsDigits(chars) == \A i \in 1..Len(chars) : chars[i] \in DigitChars
RECURSIVE ParseNat(_)
ParseNat(chars) ==
    IF chars = <<>> THEN 0
    ELSE 10 * ParseNat(SubSeq(chars, 1, Len(chars) - 1)) + DigitValue(chars[Len(chars)])

\* str(int)
RECURSIVE IntStr(_)
IntStr(n) == IF n < 10 THEN <<Digits[n + 1]>> ELSE IntStr(n \div 10) \o <<Digits[(n % 10) + 1]>>

\* The e digits of the fraction f / 10^e, trailing zeros dropped.
RECURSIVE FracStr(_, _)
FracStr(f, e) ==
    IF e = 0 \/ f = 0 THEN <<>>
    ELSE <<Digits[(f \div Pow10(e - 1)) + 1]>> \o FracStr(f % Pow10(e - 1), e - 1)

\* str(float): repr of a float in positional notation.
FloatStr(x) ==
    CASE x.kind = "nan" -> <<"n", "a", "n">>
      [] x.kind = "inf" -> <<"i", "n", "f">>
      [] OTHER ->
            LET frac == FracStr(x.m % Pow10(x.e), x.e)
            IN  IntStr(x.m \div Pow10(x.e)) \o <<".">> \o (IF frac = <<>> THEN <<"0">> ELSE frac)

\* str(score)
ScoreStr(score) ==
    CASE score.kind = "str" -> score.chars
      [] score.kind = "none" -> <<"N", "o", "n", "e">>
      [] OTHER -> FloatStr(score)

\* float(text): surrounding whitespace is ignored; digits with at most one point
\* and at least one digit, or 'nan', or 'inf'; anything else raises ValueError.
ParseFloat(chars) ==
    LET t == StripText(chars)
        points == {i \in 1..Len(t) : t[i] = "."}
    IN  IF t = <<"n", "a", "n">> THEN FloatNan
        ELSE IF t = <<"i", "n", "f">> THEN FloatInf
        ELSE IF points = {}
        THEN IF t # <<>> /\ IsDigits(t) THEN Float(ParseNat(t), 0) ELSE ValueError
        ELSE IF Cardinality(points) > 1 THEN ValueError
        ELSE LET p == CHOOSE i \in points : TRUE
                 whole == SubSeq(t, 1, p - 1)
                 frac == SubSeq(t, p + 1, Len(t))
             IN  IF IsDigits(whole) /\ IsDigits(frac) /\ Len(whole) + Len(frac) > 0
                 THEN Float(ParseNat(whole \o frac), Len(frac))
                 ELSE ValueError

\* float(score) for a score that is not None.
ToFloat(score) == IF score.kind = "str" THEN ParseFloat(score.chars) ELSE score

\* pd.isna(score)
IsNaScore(score) == score.kind \in {"none", "nan"}

is_integer_never(x) == FALSE

\* float.is_integer
is_integer(x) == x.kind = "float" /\ x.m % Pow10(x.e) = 0

clean_score(score) ==
    IF IsNaScore(score) \/ ScoreStr(score) = <<>> \/ StripText(ScoreStr(score)) = <<>>
    THEN <<"-">>
    ELSE LET float_val == ToFloat(score)
         IN  IF float_val.kind = "error" THEN <<"-">>
             ELSE IF is_integer(float_val)
             THEN IntStr(float_val.m \div Pow10(float_val.e))
             ELSE FloatStr(float_val)

(***************************************************************************)
(* Team page.                                                              *)
(***************************************************************************)
\* _slugify on the team names that occur; str(nan) is 'nan'.
_slugify(name) ==
    CASE name = "Team A" -> "Team_A"
      [] name = "Team A University" -> "Team_A_University"
      [] name = "Westmont University" -> "Westmont_University"
      [] name = NaN -> "nan"
      [] OTHER -> name

\* a or b or '': None and '' are falsy, a missing cell (nan) is truthy.
Truthy(v) == v # NoCol /\ v # ""
FirstOr(a, b) == IF Truthy(a) THEN a ELSE IF Truthy(b) THEN b ELSE ""

\* Numbers as the handler holds them: <<n>> is the number n, <<>> is float nan.
NanNumber == <<>>
\* num(row.get(col)): None (no such column) gives 0, a missing cell gives nan.
num(row, col, cols) == IF col \in cols THEN row[col] ELSE <<0>>
Plus(a, b) == IF a = NanNumber \/ b = NanNumber THEN NanNumber ELSE <<a[1] + b[1]>>
Minus(a, b) == IF a = NanNumber \/ b = NanNumber THEN NanNumber ELSE <<a[1] - b[1]>>
\* Comparisons with nan are False.
GreaterThan(a, b) == a # NanNumber /\ b # NanNumber /\ a[1] > b[1]
EqualTo(a, b) == a # NanNumber /\ b # NanNumber /\ a[1] = b[1]

SlugHome(row) == _slugify(FirstOr(row.home_team_short, row.home_team_full))
SlugAway(row) == _slugify(FirstOr(row.away_team_short, row.away_team_full))

RECURSIVE SluggedRows(_, _)
SluggedRows(rows, team_slug) ==
    IF rows = <<>> THEN <<>>
    ELSE (IF SlugHome(Head(rows)) = team_slug \/ SlugAway(Head(rows)) = team_slug
          THEN <<Head(rows)>> ELSE <<>>)
         \o SluggedRows(Tail(rows), team_slug)

\* isinstance(goals_for, (int, float)) and isinstance(goals_against, (int, float)):
\* num returns an int or a float, nan included.
BothScoresPresent(goals_for, goals_against) == TRUE

\* round(n / d, 3) in thousandths: the nearest thousandth, an exact tie going to
\* the even one.
Round3(n, d) ==
    LET q == (1000 * n) \div d
        r == (1000 * n) % d
    IN  IF 2 * r > d \/ (2 * r = d /\ q % 2 = 1) THEN q + 1 ELSE q

\* round(made / (made + conceded), 3) if (made + conceded) > 0 else 0, in
\* thousandths; nan > 0 is False.
Ratio(made, conceded) ==
    IF GreaterThan(Plus(made, conceded), <<0>>)
    THEN Round3(made[1], made[1] + conceded[1])
    ELSE 0

\* One pass of the loop over slugged_rows.
TeamStep(acc, row, team_slug, cols) ==
    LET is_home == SlugHome(row) = team_slug
        h_sc == num(row, "home_team_score", cols)
        a_sc == num(row, "away_team_score", cols)
        h_sh == num(row, "home_shots", cols)
        a_sh == num(row, "away_shots", cols)
        h_sot == num(row, "home_sot", cols)
        a_sot == num(row, "away_sot", cols)
        goals_for == IF is_home THEN h_sc ELSE a_sc
        goals_against == IF is_home THEN a_sc ELSE h_sc
        counted == BothScoresPresent(goals_for, goals_against)
        won == counted /\ GreaterThan(goals_for, goals_against)
        drawn == counted /\ ~won /\ EqualTo(goals_for, goals_against)
        lost == counted /\ ~won /\ ~drawn
        result == IF GreaterThan(goals_for, goals_against) THEN "W"
                  ELSE IF EqualTo(goals_for, goals_against) THEN "D" ELSE "L"
    IN  [wins |-> acc.wins + (IF won THEN 1 ELSE 0),
         draws |-> acc.draws + (IF drawn THEN 1 ELSE 0),
         losses |-> acc.losses + (IF lost THEN 1 ELSE 0),
         gf |-> Plus(acc.gf, goals_for),
         ga |-> Plus(acc.ga, goals_against),
         shots_for |-> Plus(acc.shots_for, IF is_home THEN h_sh ELSE a_sh),
         shots_against |-> Plus(acc.shots_against, IF is_home THEN a_sh ELSE h_sh),
         sot_for |-> Plus(acc.sot_for, IF is_home THEN h_sot ELSE a_sot),
         sot_against |-> Plus(acc.sot_against, IF is_home THEN a_sot ELSE h_sot),
         division |-> IF Truthy(acc.division) THEN acc.division ELSE row.division,
         conference |-> IF Truthy(acc.conference) THEN acc.conference
                        ELSE IF is_home THEN row.home_conference
                        ELSE row.away_conference,
         matches |-> Append(acc.matches,
                        [is_home |-> is_home,
                         opponent |-> IF is_home
                                      THEN FirstOr(row.away_team_short, row.away_team_full)
                                      ELSE FirstOr(row.home_team_short, row.home_team_full),
                         score_for |-> goals_for,
                         score_against |-> goals_against,
                         result |-> result])]

RECURSIVE TeamFold(_, _, _)
TeamFold(rows, team_slug, cols) ==
    IF rows = <<>>
    THEN [wins |-> 0, draws |-> 0, losses |-> 0, gf |-> <<0>>, ga |-> <<0>>,
          shots_for |-> <<0>>, shots_against |-> <<0>>,
          sot_for |-> <<0>>, sot_against |-> <<0>>,
          division |-> NoCol, conference |-> NoCol, matches |-> <<>>]
    ELSE TeamStep(TeamFold(SubSeq(rows, 1, Len(rows) - 1), team_slug, cols),
                  rows[Len(rows)], team_slug, cols)

team_page(mfiles, weeks, mcols, team_slug, gender) ==
    LET matches_df == load_match_data(mfiles, weeks, mcols, gender)
        slugged_rows == SluggedRows(matches_df.rows, team_slug)
        acc == TeamFold(slugged_rows, team_slug, matches_df.cols)
    IN  IF matches_df.rows = <<>>
        THEN [stats |-> NoCol, matches |-> <<>>, error |-> "No match data available."]
        ELSE IF slugged_rows = <<>>
        THEN [stats |-> NoCol, matches |-> <<>>, error |-> "Team not found in matches."]
        ELSE [stats |-> [wins |-> acc.wins, losses |-> acc.losses, draws |-> acc.draws,
                         gf |-> acc.gf, ga |-> acc.ga, gd |-> Minus(acc.gf, acc.ga),
                         shots_for |-> acc.shots_for,
                         shots_against |-> acc.shots_against,
                         tsr |-> Ratio(acc.shots_for, acc.shots_against),
                         sot_for |-> acc.sot_for,
                         sot_against |-> acc.sot_against,
                         sotr |-> Ratio(acc.sot_for, acc.sot_against),
                         division |-> acc.division, conference |-> acc.conference],
              matches |-> acc.matches,
              error |-> NoCol]

(***************************************************************************)
(* Position helpers (weekly_player_data.py).  A raw tag is a tuple of      *)
(* characters; NaNTag is a missing value.                                  *)
(***************************************************************************)
NaNTag == <<NaN>>
NotComputed == "<not computed>"

\* str.upper() on the characters that occur in the tags.
UpperChar(c) ==
    CASE c = "d" -> "D" [] c = "m" -> "M" [] c = "f" -> "F" [] c = "g" -> "G"
      [] c = "i" -> "I" [] c = "e" -> "E" [] c = "l" -> "L" [] c = "r" -> "R"
      [] OTHER -> c
Upper(s) == [i \in 1..Len(s) |-> UpperChar(s[i])]

\* str.count(k): the non-overlapping occurrences of k in s, from the left.
RECURSIVE StrCount(_, _)
StrCount(s, k) ==
    IF Len(s) < Len(k) THEN 0
    ELSE IF SubSeq(s, 1, Len(k)) = k
         THEN 1 + StrCount(SubSeq(s, Len(k) + 1, Len(s)), k)
         ELSE StrCount(Tail(s), k)

\* position_keywords, in the order of the dict literal.
KeywordLabels == <<"Midfielder", "Defender", "Forward", "Goalkeeper">>
position_keywords(lab) ==
    CASE lab = "Midfielder" -> {<<"M">>, <<"M", "I", "D", "F", "I", "E", "L", "D", "E", "R">>}
      [] lab = "Defender" -> {<<"D">>, <<"D", "E", "F", "E", "N", "D", "E", "R">>}
      [] lab = "Forward" -> {<<"F">>, <<"F", "O", "R", "W", "A", "R", "D">>}
      [] lab = "Goalkeeper" -> {<<"G">>, <<"G", "K">>,
                                <<"G", "O", "A", "L", "K", "E", "E", "P", "E", "R">>}

RECURSIVE SumCounts(_, _)
SumCounts(up, keys) ==
    IF keys = {} THEN 0
    ELSE LET k == CHOOSE x \in keys : TRUE
         IN  StrCount(up, k) + SumCounts(up, keys \ {k})

\* counts[lab] = sum(up.count(k) for k in keys)
KeywordCount(pos, lab) == SumCounts(Upper(pos), position_keywords(lab))

\* max(counts, key=counts.get): the first label of the dict with the largest count.
FirstMax(pos) ==
    LET best == CHOOSE i \in 1..Len(KeywordLabels) :
                    /\ \A j \in 1..Len(KeywordLabels) :
                           KeywordCount(pos, KeywordLabels[j]) <= KeywordCount(pos, KeywordLabels[i])
                    /\ \A j \in 1..(i - 1) :
                           KeywordCount(pos, KeywordLabels[j]) < KeywordCount(pos, KeywordLabels[i])
    IN  KeywordLabels[best]

\* A version that keeps the last label of the dict on a tie.
LastMax(pos) ==
    LET best == CHOOSE i \in 1..Len(KeywordLabels) :
                    /\ \A j \in 1..Len(KeywordLabels) :
                           KeywordCount(pos, KeywordLabels[j]) <= KeywordCount(pos, KeywordLabels[i])
                    /\ \A j \in (i + 1)..Len(KeywordLabels) :
                           KeywordCount(pos, KeywordLabels[j]) < KeywordCount(pos, KeywordLabels[i])
    IN  KeywordLabels[best]

MaxLabel(pos) == FirstMax(pos)

dominant_position_single(pos) ==
    IF pos = NaNTag \/ Len(pos) = 0 THEN "Unknown"
    ELSE IF \A i \in 1..Len(KeywordLabels) : KeywordCount(pos, KeywordLabels[i]) = 0
         THEN "Unknown"
         ELSE MaxLabel(pos)

Labels == {"Goalkeeper", "Defender", "Midfielder", "Forward", "Unknown"}

\* A tie-break table with Defender and Midfielder exchanged.
POS_TIEBREAK_Swapped(lab) ==
    CASE lab = "Goalkeeper" -> 0 [] lab = "Midfielder" -> 1 [] lab = "Defender" -> 2
      [] lab = "Forward" -> 3 [] OTHER -> 9

POS_TIEBREAK(lab) ==
    CASE lab = "Goalkeeper" -> 0 [] lab = "Defender" -> 1 [] lab = "Midfielder" -> 2
      [] lab = "Forward" -> 3 [] OTHER -> 9

\* labels.value_counts()
ValueCount(labels, lab) == Cardinality({i \in 1..Len(labels) : labels[i] = lab})

compute_dominant_position_over_games(series) ==
    IF series = <<>> THEN "Unknown"
    ELSE LET labels == [i \in 1..Len(series) |-> dominant_position_single(series[i])]
             seen == {labels[i] : i \in 1..Len(labels)}
             max_count == CHOOSE n \in {ValueCount(labels, l) : l \in seen} :
                              \A l \in seen : ValueCount(labels, l) <= n
             candidates == {l \in seen : ValueCount(labels, l) = max_count}
         IN  CHOOSE l \in candidates :
                 \A m \in candidates \ {l} : POS_TIEBREAK(l) < POS_TIEBREAK(m)

\* The raw tags a box score can carry for a player.
RawTags == { <<>>, NaNTag, <<"M">>, <<"D">>, <<"F">>, <<"G", "K">>, <<"M", "F">>,
             <<"d">>, <<"S">>,
             <<"M", "i", "d", "f", "i", "e", "l", "d", "e", "r">> }

(***************************************************************************)
(* Weekly periods of the collection scripts.                               *)
(***************************************************************************)
\* Dates are <<year, month, day>>; datetime counts them as proleptic Gregorian
\* ordinals, day 1 being 0001-01-01, and has no date after 9999-12-31.
MAXORDINAL == 3652059

RECURSIVE DaysBeforeMonth(_, _)
DaysBeforeMonth(y, m) ==
    IF m = 1 THEN 0 ELSE DaysBeforeMonth(y, m - 1) + DaysInMonth(y, m - 1)
DaysBeforeYear(y) ==
    (y - 1) * 365 + (y - 1) \div 4 - (y - 1) \div 100 + (y - 1) \div 400

\* datetime.strptime(s, '%Y-%m-%d') of a calendar date, as its ordinal.
ToOrdinal(date) == DaysBeforeYear(date[1]) + DaysBeforeMonth(date[1], date[2]) + date[3]

\* The date of an ordinal, as strftime writes its year, month and day.
FromOrdinal(n) ==
    LET n400 == (n - 1) \div 146097
        r400 == (n - 1) % 146097
        n100 == r400 \div 36524
        r100 == r400 % 36524
        n4 == r100 \div 1461
        r4 == r100 % 1461
        n1 == r4 \div 365
        r1 == r4 % 365
        year == n400 * 400 + n100 * 100 + n4 * 4 + n1 + 1
    IN  IF n1 = 4 \/ n100 = 4 THEN <<year - 1, 12, 31>>
        ELSE LET month == CHOOSE m \in 1..12 :
                              /\ DaysBeforeMonth(year, m) <= r1
                              /\ r1 < DaysBeforeMonth(year, m) + DaysInMonth(year, m)
             IN  <<year, month, r1 - DaysBeforeMonth(year, month) + 1>>

\* datetime.weekday(): Monday = 0, Sunday = 6
weekday(n) == (n + 6) % 7

\* strftime('%Y%m%d')
FilenameCode(date) == date[1] * 10000 + date[2] * 100 + date[3]

\* A loop that starts every period a full week after the previous start.
RECURSIVE WeekLoopFixedStride(_, _, _)
WeekLoopFixedStride(current, end, weeks) ==
    IF current > end THEN [raised |-> "", weeks |-> weeks]
    ELSE LET week_end == IF current + 6 > end THEN end ELSE current + 6
         IN  WeekLoopFixedStride(week_end + 1, end,
                 Append(weeks, [start |-> FromOrdinal(current),
                                end |-> FromOrdinal(week_end),
                                filename |-> FilenameCode(FromOrdinal(week_end))]))

\* The while loop of get_week_periods; adding a timedelta raises OverflowError
\* when the sum is after 9999-12-31.
RECURSIVE WeekLoop(_, _, _)
WeekLoop(current, end, weeks) ==
    IF current > end THEN [raised |-> "", weeks |-> weeks]
    ELSE LET days_until_sunday == 6 - weekday(current)
             sunday == current + days_until_sunday
             week_end == IF sunday > end THEN end ELSE sunday
         IN  IF sunday > MAXORDINAL \/ week_end + 1 > MAXORDINAL
             THEN [raised |-> "OverflowError", weeks |-> <<>>]
             ELSE WeekLoop(week_end + 1, end,
                      Append(weeks, [start |-> FromOrdinal(current),
                                     end |-> FromOrdinal(week_end),
                                     filename |-> FilenameCode(FromOrdinal(week_end))]))

get_week_periods(start_date, end_date) ==
    WeekLoop(ToOrdinal(start_date), ToOrdinal(end_date), <<>>)

START_DATE == <<2025, 8, 14>>
END_DATE == <<2025, 9, 3>>

\* The dates the periods are computed for: the configured season, a turn of the
\* year, a leap day and the last days datetime can hold.
DateWindows ==
    { ToOrdinal(START_DATE)..ToOrdinal(END_DATE),
      ToOrdinal(<<2025, 12, 26>>)..ToOrdinal(<<2026, 1, 6>>),
      ToOrdinal(<<2024, 2, 26>>)..ToOrdinal(<<2024, 3, 3>>),
      ToOrdinal(<<9999, 12, 20>>)..MAXORDINAL }

\* main of weekly_player_data.py before it is run.
NoMain == [pc |-> "idle", weekly_periods |-> <<>>, week |-> 0, returned |-> <<>>,
           saved |-> {}]

\* return mens_df, womens_df
collect_player_data_for_period(mens_df, womens_df) == <<mens_df, womens_df>>

\* a, b, c, d = value raises ValueError unless the value has four items.
UnpacksInto(value, names) == Len(value) = names

\* f"Data/Players/mens_players_{filename_suffix}.csv" and the women's name.
SavedNames(filename_suffix) == {<<"mens", filename_suffix>>, <<"womens", filename_suffix>>}

\* The tables one week's collection can return for the men and for the women.
GroupedTables ==
    {u \in SeqsUpTo({r \in ScrapedRows : r.Division = "d1"}, MaxRows) \cup {<<>>} :
         OneRowPerKey(u)}
MensTables == { [i \in 1..Len(t) |-> WithGender(t[i], "men")] : t \in GroupedTables }
WomensTables == { [i \in 1..Len(t) |-> WithGender(t[i], "women")] : t \in GroupedTables }

(***************************************************************************)
(* The boxscore fetch of the match collection scripts.                     *)
(***************************************************************************)
max_retries == 2
backoff == 1

\* What one requests.get can come to: a response with a status code (and, for
\* status 200, a body), or a requests.RequestException without a response.
Bodies == {"valid", "no_meta", "null", "not_json"}
HttpOutcomes ==
    {[kind |-> "response", status |-> 200, body |-> b] : b \in Bodies}
    \cup {[kind |-> "response", status |-> s, body |-> ""] : s \in {403, 429, 503, 404}}
    \cup {[kind |-> "RequestException", status |-> 0, body |-> ""]}

\* resp.json() / json.loads: a body that is no JSON text raises, the text null
\* is None, a document without "meta" or "teams" is a dict that lacks them.
None == "None"
ParsesAsJson(body) == body # "not_json"
ParseJson(body) == IF body = "null" THEN None ELSE body

\* not (not data or "meta" not in data or "teams" not in data)
HasBoxscore(data) == data = "valid"

\* The class of the error resp.json() raises on a body that is no JSON:
\* requests.JSONDecodeError, a RequestException, from requests 2.27 on and a
\* plain ValueError before.
JsonErrorClasses == {"RequestException", "ValueError"}

\* A loop that tries again after every status but 200.
ShouldRetryAny(status) == status # 200

\* resp.status_code in (403, 429, 503)
ShouldRetry(status) == status \in {403, 429, 503}

\* str(bid).strip().isdigit() of the ids that occur
isdigit(bid) == bid \in {"101", "102"}
BoxscoreIds == {"101", "102", ""}

NoFetch == [pc |-> "idle", json_error |-> "RequestException", todo |-> <<>>,
            taken |-> <<>>, bid |-> "", attempt |-> 0, data |-> None, gets |-> <<>>,
            slept |-> <<>>, curl |-> FALSE, appended |-> FALSE, rows |-> <<>>]
(***************************************************************************)
(* The parallel boxscore fetch of scripts/weekly_match_data.py.            *)
(***************************************************************************)
MAX_WORKERS == 2   \* 8 in the script

\* What fetch_one(bid) comes to: a row (a non-empty dict), None, or an exception
\* that the future keeps until result() is called.
FetchResults == {"row", None, "raised"}
PoolIds == {"101", "102", "103"}

\* The lists of distinct ids of the given length and less.
DistinctIds(n) ==
    {ids \in SeqsUpTo(PoolIds, n) \cup {<<>>} :
         \A i, j \in 1..Len(ids) : i # j => ids[i] # ids[j]}

\* A collecting loop that appends whatever result() gives.
AppendsAny(res) == TRUE

\* if res:
Appends(res) == res = "row"

NoPool == [pc |-> "idle", boxscore_ids |-> <<>>,
           future |-> [bid \in PoolIds |-> "none"],
           result |-> [bid \in PoolIds |-> None],
           rows |-> <<>>, done |-> 0]
(***************************************************************************)
(* Logo lookup.                                                            *)
(***************************************************************************)
\* The logo files the scraper can have saved, and the team names looked up.
LogoFileNames == {"Westmont.png", "westmont.svg", "St._Bonaventure.png",
                  "Saint_Bonaventure.png", "Miami_FL.png"}
LogoTeams == {"Westmont", "St. Bonaventure", "Miami (FL)", ""}

\* os.path.splitext(name)[0]: the name up to its last dot.
splitext(name) ==
    CASE name = "Westmont.png" -> "Westmont"
      [] name = "westmont.svg" -> "westmont"
      [] name = "St._Bonaventure.png" -> "St._Bonaventure"
      [] name = "Saint_Bonaventure.png" -> "Saint_Bonaventure"
      [] name = "Miami_FL.png" -> "Miami_FL"
      [] name = "St._Bonaventure" -> "St"
      [] OTHER -> name

\* str.lower() of the stems and candidates that occur
lower(s) ==
    CASE s = "Westmont" -> "westmont"
      [] s = "St" -> "st"
      [] s = "St._Bonaventure" -> "st._bonaventure"
      [] s = "Saint_Bonaventure" -> "saint_bonaventure"
      [] s = "St__Bonaventure" -> "st__bonaventure"
      [] s = "St_Bonaventure" -> "st_bonaventure"
      [] s = "Miami_(FL)" -> "miami_(fl)"
      [] s = "Miami_FL" -> "miami_fl"
      [] OTHER -> s

\* norm(s): re.sub(r'[^a-z0-9]', '', s.lower())
norm(s) ==
    CASE lower(s) = "westmont" -> "westmont"
      [] lower(s) \in {"st._bonaventure", "st__bonaventure", "st_bonaventure"}
             -> "stbonaventure"
      [] lower(s) = "saint_bonaventure" -> "saintbonaventure"
      [] lower(s) \in {"miami_(fl)", "miami_fl"} -> "miamifl"
      [] OTHER -> lower(s)

\* The candidate slugs get_logo_path derives from a team name, in order and
\* without repetition (deduped); none for an empty name.
Candidates(team_name) ==
    CASE team_name = "Westmont" -> <<"Westmont">>
      [] team_name = "St. Bonaventure" ->
             <<"St._Bonaventure", "Saint_Bonaventure", "St__Bonaventure", "St_Bonaventure">>
      [] team_name = "Miami (FL)" -> <<"Miami_(FL)", "Miami_FL">>
      [] OTHER -> <<>>

\* The lookup key of a candidate and of a file.
CandidateKey(cand) == lower(splitext(cand))
FileKey(fname) == lower(splitext(fname))

\* An index is a set of <<key, fname>> with one file name per key.  A listing
\* with two files of the same key keeps the one os.listdir yields last, which
\* is either of them.
Indexes(files) ==
    { idx \in SUBSET {<<FileKey(f), f>> : f \in files} :
        /\ \A f \in files : \E e \in idx : e[1] = FileKey(f)
        /\ \A e1, e2 \in idx : e1[1] = e2[1] => e1 = e2 }
IndexKeys(index) == {e[1] : e \in index}
IndexAt(index, key) == (CHOOSE e \in index : e[1] = key)[2]

\* try_candidates(index): the file of the first candidate whose key is indexed.
RECURSIVE TryFrom(_, _)
TryFrom(index, cands) ==
    IF cands = <<>> THEN None
    ELSE IF CandidateKey(Head(cands)) \in IndexKeys(index)
    THEN "logos/" \o IndexAt(index, CandidateKey(Head(cands)))
    ELSE TryFrom(index, Tail(cands))
try_candidates(index, team_name) == TryFrom(index, Candidates(team_name))

\* The fuzzy fallback: the files whose normalised stem is the normalised form
\* of a candidate; the loop returns the one os.listdir yields first.
FuzzyMatches(files, team_name) ==
    { f \in files : \E i \in 1..Len(Candidates(team_name)) :
                        norm(splitext(f)) = norm(Candidates(team_name)[i]) }

\* A second pass that looks in the index it already had.
stale_index(cached, listed) == cached

\* _logo_index.cache_clear(); refreshed = _logo_index()
refreshed_index(cached, listed) == listed

NoCache == [built |-> FALSE, index |-> {}]
ScriptsIdle == main = NoMain /\ fetch = NoFetch /\ pool = NoPool
LogoIdle == logo_files = {} /\ logo_index_cache = NoCache

(***************************************************************************)
(* Actions.                                                                *)
(***************************************************************************)
\* The collection script saves one weekly player file.
SavePlayerFile(g, code, rows) ==
    /\ PlayerFileName(g, code) \notin DOMAIN playerFiles
    /\ StoredRows(playerFiles) + Len(rows) <= MaxRows
    /\ OneRowPerKey(rows)
    /\ playerFiles' = playerFiles @@
           (PlayerFileName(g, code) :> [i \in 1..Len(rows) |-> WithGender(rows[i], g)])
    /\ data_dir_exists' = TRUE
    /\ UNCHANGED <<playerCols, available_weeks, started, resp, posVars, matchVars,
                   unreadable, calls, scriptVars, logoVars>>

\* america_scouted_app = AmericaScoutedApp()
AppStart ==
    /\ ~started
    /\ started' = TRUE
    /\ available_weeks' = get_available_weeks(data_dir_exists, playerFiles)
    /\ UNCHANGED <<playerFiles, playerCols, resp, posVars, matchVars, data_dir_exists, unreadable, calls, scriptVars, logoVars>>

\* A call that would rebuild the week index before it loads.
CallLoadCumulativeRefreshing(end_week_code, gender) ==
    /\ started
    /\ available_weeks' = get_available_weeks(data_dir_exists, playerFiles)
    /\ resp' = [op |-> "load_cumulative_data",
                end_week_code |-> end_week_code,
                gender |-> gender,
                df |-> load_cumulative_data(PlayerDir, available_weeks', playerCols,
                                            end_week_code, gender)]
    /\ UNCHANGED <<playerFiles, playerCols, started, posVars, matchVars, data_dir_exists, unreadable, calls, scriptVars, logoVars>>

\* A call of load_cumulative_data(end_week_code, gender).
CallLoadCumulative(end_week_code, gender) ==
    /\ started
    /\ resp' = [op |-> "load_cumulative_data",
                end_week_code |-> end_week_code,
                gender |-> gender,
                df |-> load_cumulative_data(PlayerDir, available_weeks, playerCols,
                                            end_week_code, gender)]
    /\ UNCHANGED <<playerFiles, playerCols, available_weeks, started, posVars, matchVars, data_dir_exists, unreadable, calls, scriptVars, logoVars>>

PosIdle == positions_series = <<>> /\ dominant = NotComputed
MatchIdle == matchFiles = <<>> /\ matchCols = MatchColsFull

InitPlayers ==
    /\ data_dir_exists = TRUE
    /\ unreadable = {}
    /\ calls = NoCalls
    /\ ScriptsIdle
    /\ LogoIdle
    /\ PosIdle
    /\ MatchIdle
    /\ playerFiles = <<>>
    /\ playerCols \in PlayerSchemas
    /\ available_weeks = <<>>
    /\ started = FALSE
    /\ resp = NoResp

NextPlayers ==
    \/ /\ ~started
       /\ \E g \in GENDERS, code \in WeekCodes, rows \in SeqsUpTo(ScrapedRows, MaxRows - StoredRows(playerFiles)) :
              SavePlayerFile(g, code, rows)
    \/ AppStart
    \/ \E w \in CutoffCodes, g \in GENDERS : CallLoadCumulative(w, g)

SpecPlayers == InitPlayers /\ [][NextPlayers]_vars

\* clean_data_from_boxscore_payload emits a row with the raw Position of a game.
CollectGame(tag) ==
    /\ dominant = NotComputed
    /\ Len(positions_series) < MaxGames
    /\ positions_series' = Append(positions_series, tag)
    /\ UNCHANGED <<dominant, appVars>>

\* groupby(key_cols)['Position'].apply(compute_dominant_position_over_games)
ComputeDominant ==
    /\ dominant = NotComputed
    /\ dominant' = compute_dominant_position_over_games(positions_series)
    /\ UNCHANGED <<positions_series, appVars>>

AppIdle ==
    /\ data_dir_exists = TRUE
    /\ unreadable = {}
    /\ calls = NoCalls
    /\ ScriptsIdle
    /\ LogoIdle
    /\ MatchIdle
    /\ playerFiles = <<>>
    /\ playerCols = PlayerColsFull
    /\ available_weeks = <<>>
    /\ started = FALSE
    /\ resp = NoResp

InitPositions == AppIdle /\ PosIdle

NextPositions ==
    \/ \E tag \in RawTags : CollectGame(tag)
    \/ ComputeDominant

SpecPositions == InitPositions /\ [][NextPositions]_vars

\* The match collection script saves one weekly match file.
SaveMatchFile(code, rows) ==
    /\ code \notin DOMAIN matchFiles
    /\ StoredMatches(matchFiles) + Len(rows) <= MaxMatchRows
    /\ matchFiles' = matchFiles @@
           (code :> [i \in 1..Len(rows) |-> WriteColumns(rows[i], matchCols)])
    /\ UNCHANGED <<matchCols, playerFiles, playerCols, available_weeks, started,
                   resp, posVars, data_dir_exists, unreadable, calls, scriptVars, logoVars>>

\* A call of load_match_data(gender).
CallLoadMatchData(gender) ==
    /\ started
    /\ resp' = [op |-> "load_match_data",
                gender |-> gender,
                df |-> load_match_data(matchFiles, available_weeks, matchCols, gender)]
    /\ UNCHANGED <<playerFiles, playerCols, available_weeks, started, posVars,
                   matchVars, data_dir_exists, unreadable, calls, scriptVars, logoVars>>

\* Header-only player files of every week: the weeks the index will hold.
HeaderOnlyFiles(codes) == [fn \in {PlayerFileName("men", c) : c \in codes} |-> <<>>]

InitMatches ==
    /\ data_dir_exists = TRUE
    /\ unreadable = {}
    /\ calls = NoCalls
    /\ ScriptsIdle
    /\ LogoIdle
    /\ PosIdle
    /\ playerFiles \in {HeaderOnlyFiles(WeekCodes), HeaderOnlyFiles(WeekCodes \ {20250824})}
    /\ playerCols = PlayerColsFull
    /\ available_weeks = <<>>
    /\ started = FALSE
    /\ resp = NoResp
    /\ matchFiles = <<>>
    /\ matchCols \in MatchSchemas

NextMatches ==
    \/ /\ ~started
       /\ \E code \in WeekCodes,
             rows \in SeqsUpTo(ScrapedMatches, MaxMatchRows - StoredMatches(matchFiles)) :
              SaveMatchFile(code, rows)
    \/ AppStart
    \/ \E g \in GENDERS : CallLoadMatchData(g)

SpecMatches == InitMatches /\ [][NextMatches]_vars

\* GET /players?week=..&gender=..
CallPlayers(week, gender) ==
    /\ started
    /\ resp' = [op |-> "players", week |-> week, gender |-> gender,
                players |-> players(PlayerDir, available_weeks, playerCols,
                                    matchFiles, matchCols, week, gender)]
    /\ UNCHANGED <<playerFiles, playerCols, available_weeks, started, posVars,
                   matchVars, data_dir_exists, unreadable, calls, scriptVars, logoVars>>

\* GET /
CallIndex ==
    /\ started
    /\ LET latest_code == LatestWeek(available_weeks)
           Load(g) == IF available_weeks = <<>> THEN EmptyFrame
                      ELSE load_cumulative_data(PlayerDir, available_weeks,
                                                playerCols, latest_code, g)
       IN  resp' = [op |-> "index",
                    men_top_scorers |-> top_scorers(Load("men")),
                    women_top_scorers |-> top_scorers(Load("women")),
                    men_top_assisters |-> top_assisters(Load("men")),
                    women_top_assisters |-> top_assisters(Load("women"))]
    /\ UNCHANGED <<playerFiles, playerCols, available_weeks, started, posVars,
                   matchVars, data_dir_exists, unreadable, calls, scriptVars, logoVars>>

\* GET /api/player/<player_name>?week=..&gender=..
CallPlayerDetail(player_name, week, gender) ==
    /\ started
    /\ resp' = [op |-> "player_detail", player_name |-> player_name,
                week |-> week, gender |-> gender,
                body |-> player_detail(PlayerDir, available_weeks, playerCols,
                                       player_name, week, gender)]
    /\ UNCHANGED <<playerFiles, playerCols, available_weeks, started, posVars,
                   matchVars, data_dir_exists, unreadable, calls, scriptVars, logoVars>>

\* One men's player file and one match file of the first week, with or without
\* a Division column in the player files.
ReconRows ==
    { PlayerRow("Jane Doe", "Team A", "d1", "Midfielder", <<2>>, <<1>>),
      PlayerRow("Jane Doe", "Team A", "d2", "Midfielder", <<2>>, <<1>>),
      PlayerRow("Amy Roe", "Westmont", "d1", "Defender", <<1>>, <<0>>),
      PlayerRow("Amy Roe", "Westmont", "d3", "Defender", <<3>>, <<0>>),
      PlayerRow("Jane Doe", "Team A", "D1", "Midfielder", <<2>>, <<1>>) }
ReconMatches ==
    { m \in ScrapedMatches : m.gender = "men" /\ m.home_team_score # <<>> }

InitRecon ==
    /\ data_dir_exists = TRUE
    /\ unreadable = {}
    /\ calls = NoCalls
    /\ ScriptsIdle
    /\ LogoIdle
    /\ PosIdle
    /\ playerFiles = <<>>
    /\ playerCols \in {PlayerColsFull, PlayerColsFull \ {"Division"}}
    /\ available_weeks = <<>>
    /\ started = FALSE
    /\ resp = NoResp
    /\ matchFiles = <<>>
    /\ matchCols = MatchColsFull

NextRecon ==
    \/ /\ ~started
       /\ \E rows \in SeqsUpTo(ReconRows, MaxRows - StoredRows(playerFiles)) :
              SavePlayerFile("men", 20250817, rows)
    \/ /\ ~started
       /\ \E rows \in SeqsUpTo(ReconMatches, MaxMatchRows - StoredMatches(matchFiles)) :
              SaveMatchFile(20250817, rows)
    \/ AppStart
    \/ CallPlayers(LatestWeek(available_weeks), "men")
    \/ CallIndex
    \/ \E name \in {"Jane Doe", "Amy Roe"} :
           CallPlayerDetail(name, LatestWeek(available_weeks), "men")

SpecRecon == InitRecon /\ [][NextRecon]_vars

\* File name endings of the player directory: two weeks, a leap day of an
\* earlier year, two 8-digit codes that are no date, a short and a long code.
WeekTails == {20250817, 20250824, 20240229, 20250229, 20251301, 202508, 2025081700}

InitWeeks ==
    /\ PosIdle
    /\ MatchIdle
    /\ data_dir_exists \in BOOLEAN
    /\ unreadable = {}
    /\ calls = NoCalls
    /\ ScriptsIdle
    /\ LogoIdle
    /\ playerFiles = <<>>
    /\ playerCols = PlayerColsFull
    /\ available_weeks = <<>>
    /\ started = FALSE
    /\ resp = NoResp

NextWeeks ==
    \/ /\ ~started
       /\ Cardinality(DOMAIN playerFiles) < MaxFiles
       /\ \E g \in GENDERS, tail \in WeekTails : SavePlayerFile(g, tail, <<>>)
    \/ AppStart

SpecWeeks == InitWeeks /\ [][NextWeeks]_vars

\* The collection scripts keep saving weekly files while the application runs.
LateRows ==
    { PlayerRow("Jane Doe", "Team A", "d1", "Midfielder", <<2>>, <<1>>),
      PlayerRow("Amy Roe", "Westmont", "d1", "Defender", <<1>>, <<0>>) }
LateMatches ==
    { m \in ScrapedMatches : m.gender = "men" /\ m.boxscore_id # NaN /\ m.division = "d1" }

InitCache ==
    /\ data_dir_exists = TRUE
    /\ unreadable = {}
    /\ calls = NoCalls
    /\ ScriptsIdle
    /\ LogoIdle
    /\ PosIdle
    /\ MatchIdle
    /\ playerFiles = <<>>
    /\ playerCols = PlayerColsFull
    /\ available_weeks = <<>>
    /\ started = FALSE
    /\ resp = NoResp

NextCache ==
    \/ \E code \in WeekCodes, rows \in SeqsUpTo(LateRows, MaxRows - StoredRows(playerFiles)) :
           SavePlayerFile("men", code, rows)
    \/ \E code \in WeekCodes,
          rows \in SeqsUpTo(LateMatches, MaxMatchRows - StoredMatches(matchFiles)) :
           SaveMatchFile(code, rows)
    \/ AppStart
    \/ CallLoadCumulative(20250831, "men")
    \/ CallLoadMatchData("men")

SpecCache == InitCache /\ [][NextCache]_vars

\* GET /team/<team_slug>?gender=..
CallTeamPage(team_slug, gender) ==
    /\ started
    /\ resp' = [op |-> "team_page", team_slug |-> team_slug, gender |-> gender,
                page |-> team_page(matchFiles, available_weeks, matchCols,
                                   team_slug, gender)]
    /\ UNCHANGED <<playerFiles, playerCols, available_weeks, started, posVars,
                   matchVars, data_dir_exists, unreadable, calls, scriptVars, logoVars>>

\* Men's games of one week: a win, a draw and a loss of the home side with their
\* shots (home shots, home on target, away shots, away on target), a game not
\* yet played and a game with one score missing, both without a shots row.
TeamMatches ==
    { WithShots(MatchRow("men", "d1", "1001", "Team A", "Westmont", <<2>>, <<1>>, "ACC", "Big East"), 12, 5, 7, 3),
      WithShots(MatchRow("men", "d1", "1002", "Westmont", "Team A", <<1>>, <<1>>, "Big East", "ACC"), 1, 0, 15, 0),
      WithShots(MatchRow("men", "d1", "1003", "Team A", "Westmont", <<0>>, <<3>>, "ACC", "Big East"), 4, 1, 8, 2),
      MatchRow("men", "d1", "1004", "Westmont", "Team A", <<>>, <<>>, "Big East", "ACC"),
      MatchRow("men", "d1", "1005", "Team A", "Westmont", <<2>>, <<>>, "ACC", "Big East") }

InitTeam ==
    /\ data_dir_exists = TRUE
    /\ unreadable = {}
    /\ calls = NoCalls
    /\ ScriptsIdle
    /\ LogoIdle
    /\ PosIdle
    /\ playerFiles = HeaderOnlyFiles({20250817})
    /\ playerCols = PlayerColsFull
    /\ available_weeks = <<>>
    /\ started = FALSE
    /\ resp = NoResp
    /\ matchFiles = <<>>
    /\ matchCols \in {MatchColsFull, MatchColsFull \ {"home_team_score"},
                      MatchColsFull \ {"home_shots", "home_sot", "away_shots", "away_sot"}}

NextTeam ==
    \/ /\ ~started
       /\ \E rows \in SeqsUpTo(TeamMatches, MaxMatchRows - StoredMatches(matchFiles)) :
              SaveMatchFile(20250817, rows)
    \/ AppStart
    \/ \E team_slug \in {"Team_A", "Westmont", "Nowhere"} : CallTeamPage(team_slug, "men")

SpecTeam == InitTeam /\ [][NextTeam]_vars

\* clean_score(score), as the matches route calls it for each score cell.
CallCleanScore(score) ==
    /\ resp' = [op |-> "clean_score", score |-> score, out |-> clean_score(score)]
    /\ UNCHANGED <<playerFiles, playerCols, available_weeks, started, posVars,
                   matchVars, data_dir_exists, unreadable, calls, scriptVars, logoVars>>

ScoreInputs ==
    {NoneScore, FloatNan, FloatInf}
        \cup {Float(m, e) : m \in 0..MaxMantissa, e \in 0..1}
        \cup {Text(chars) : chars \in SeqsUpTo(TextAlphabet, MaxScoreLen)}

InitScore ==
    /\ data_dir_exists = TRUE
    /\ unreadable = {}
    /\ calls = NoCalls
    /\ ScriptsIdle
    /\ LogoIdle
    /\ PosIdle
    /\ MatchIdle
    /\ playerFiles = <<>>
    /\ playerCols = PlayerColsFull
    /\ available_weeks = <<>>
    /\ started = FALSE
    /\ resp = NoResp

NextScore == \E score \in ScoreInputs : CallCleanScore(score)

SpecScore == InitScore /\ [][NextScore]_vars

\* A player file is torn or overwritten so that pd.read_csv raises on it.
DamagePlayerFile(fn) ==
    /\ fn \in DOMAIN playerFiles
    /\ fn \notin unreadable
    /\ unreadable' = unreadable \cup {fn}
    /\ UNCHANGED <<playerFiles, playerCols, available_weeks, started, resp, posVars,
                   matchVars, data_dir_exists, calls, scriptVars, logoVars>>

\* Headers with every column, without a grouping column, without a counting
\* column.
SkipSchemas ==
    { PlayerColsFull,
      PlayerColsFull \ {"Name", "Team", "Gender", "Division"},
      PlayerColsFull \ {"Goals", "Assists"} }

InitSkip ==
    /\ data_dir_exists = TRUE
    /\ unreadable = {}
    /\ calls = NoCalls
    /\ ScriptsIdle
    /\ LogoIdle
    /\ PosIdle
    /\ MatchIdle
    /\ playerFiles = <<>>
    /\ playerCols \in SkipSchemas
    /\ available_weeks = <<>>
    /\ started = FALSE
    /\ resp = NoResp

NextSkip ==
    \/ /\ ~started
       /\ Cardinality(DOMAIN playerFiles) < MaxFiles
       /\ \E g \in GENDERS, code \in WeekCodes :
              \E rows \in SeqsUpTo(LateRows, MaxRows - StoredRows(playerFiles)) \cup {<<>>} :
                  SavePlayerFile(g, code, rows)
    \/ /\ ~started
       /\ \E fn \in DOMAIN playerFiles : DamagePlayerFile(fn)
    \/ AppStart
    \/ \E end_week_code \in CutoffCodes : CallLoadCumulative(end_week_code, "men")

SpecSkip == InitSkip /\ [][NextSkip]_vars

(***************************************************************************)
(* Concurrent requests: each thread runs one aggregation call, file by     *)
(* file, with its own locals.                                              *)
(***************************************************************************)
InFlight(t) == calls[t].op # "idle" /\ ~calls[t].done
OthersInFlight(t) == \E u \in Threads \ {t} : InFlight(u)

\* One all_data list used by every call in flight.
all_data_shared(cs, t) ==
    IF t = 1 THEN cs[1].all_data \o cs[2].all_data
    ELSE cs[2].all_data \o cs[1].all_data

\* all_data = [] is a local of the call.
all_data(cs, t) == cs[t].all_data

\* A request thread enters load_cumulative_data(end_week_code, gender).
StartCumulative(t, end_week_code, gender) ==
    /\ started
    /\ ~InFlight(t)
    /\ calls' = [calls EXCEPT ![t] =
                    [IdleCall EXCEPT !.op = "load_cumulative_data",
                                     !.end_week_code = end_week_code,
                                     !.gender = gender, !.pc = 1,
                                     !.interleaved = OthersInFlight(t)]]
    /\ UNCHANGED <<appVarsButCalls, posVars>>

\* A request thread enters load_match_data(gender).
StartMatches(t, gender) ==
    /\ started
    /\ ~InFlight(t)
    /\ calls' = [calls EXCEPT ![t] =
                    [IdleCall EXCEPT !.op = "load_match_data", !.gender = gender,
                                     !.pc = 1, !.interleaved = OthersInFlight(t)]]
    /\ UNCHANGED <<appVarsButCalls, posVars>>

\* One pass of the loop over self.available_weeks: the file of the week is read
\* and appended to all_data, or skipped.
ReadWeekFile(t) ==
    /\ InFlight(t)
    /\ calls[t].pc <= Len(available_weeks)
    /\ LET c == calls[t]
           week == <<available_weeks[c.pc]>>
           frame == IF c.op = "load_cumulative_data"
                    THEN ConcatWeeks(PlayerDir, week, c.end_week_code, c.gender)
                    ELSE ConcatMatches(matchFiles, week, matchCols, c.gender)
           read == IF c.op = "load_cumulative_data"
                   THEN AnyLoaded(PlayerDir, week, c.end_week_code, c.gender)
                   ELSE AnyMatchFileLoaded(matchFiles, week, matchCols)
       IN  calls' = [calls EXCEPT ![t].pc = c.pc + 1,
                                  ![t].all_data = c.all_data \o frame,
                                  ![t].appended = c.appended \/ read,
                                  ![t].interleaved = c.interleaved \/ OthersInFlight(t)]
    /\ UNCHANGED <<appVarsButCalls, posVars>>

\* After the loop: concat, aggregate, return.
ReturnFrame(t) ==
    /\ InFlight(t)
    /\ calls[t].pc > Len(available_weeks)
    /\ LET c == calls[t]
           combined == all_data(calls, t)
           frame == IF ~c.appended THEN EmptyFrame
                    ELSE IF c.op = "load_cumulative_data"
                    THEN Aggregate(combined, playerCols)
                    ELSE CombineMatches(combined, matchCols)
       IN  calls' = [calls EXCEPT ![t].done = TRUE, ![t].result = frame]
    /\ UNCHANGED <<appVarsButCalls, posVars>>

\* The store of a started application: three indexed weeks.
ConcurrentPlayerFiles ==
    LET jane == PlayerRow("Jane Doe", "Team A", "d1", "Midfielder", <<2>>, <<1>>)
        amy == PlayerRow("Amy Roe", "Westmont", "d1", "Defender", <<1>>, <<0>>)
    IN  (PlayerFileName("men", 20250817) :> <<WithGender(jane, "men")>>)
        @@ (PlayerFileName("women", 20250824) :> <<WithGender(amy, "women")>>)
        @@ (PlayerFileName("men", 20250831)
                :> <<WithGender(jane, "men"), WithGender(amy, "men")>>)
ConcurrentMatchFiles ==
    (20250817 :> <<MatchRow("men", "d1", "12345", "Team A", "Westmont", <<>>, <<>>, "ACC", "Big East")>>)
    @@ (20250831 :> << MatchRow("men", "d2", "12345", "Team A", "Westmont", <<2>>, <<1>>, "ACC", "Big East"),
                       MatchRow("men", "d1", "67890", "Team A", "Westmont", <<1>>, <<1>>, "ACC", "CACC") >>)

InitConcurrent ==
    /\ data_dir_exists = TRUE
    /\ unreadable \in {{}, {PlayerFileName("men", 20250817)}}
    /\ calls = NoCalls
    /\ ScriptsIdle
    /\ LogoIdle
    /\ PosIdle
    /\ playerFiles = ConcurrentPlayerFiles
    /\ playerCols = PlayerColsFull
    /\ matchFiles = ConcurrentMatchFiles
    /\ matchCols = MatchColsFull
    /\ available_weeks = get_available_weeks(data_dir_exists, playerFiles)
    /\ started = TRUE
    /\ resp = NoResp

NextConcurrent ==
    \/ \E t \in Threads, end_week_code \in {20250817, 20250831} :
           StartCumulative(t, end_week_code, "men")
    \/ \E t \in Threads : StartMatches(t, "men")
    \/ \E t \in Threads : ReadWeekFile(t)
    \/ \E t \in Threads : ReturnFrame(t)

SpecConcurrent == InitConcurrent /\ [][NextConcurrent]_vars

(***************************************************************************)
(* The collection scripts.                                                 *)
(***************************************************************************)
ScriptIdle ==
    /\ data_dir_exists = FALSE
    /\ unreadable = {}
    /\ calls = NoCalls
    /\ PosIdle
    /\ MatchIdle
    /\ playerFiles = <<>>
    /\ playerCols = PlayerColsFull
    /\ available_weeks = <<>>
    /\ started = FALSE
    /\ resp = NoResp

\* get_week_periods(start_date_str, end_date_str)
CallGetWeekPeriods(start_date, end_date) ==
    /\ resp' = [op |-> "get_week_periods", start |-> start_date, end |-> end_date,
                result |-> get_week_periods(start_date, end_date)]
    /\ UNCHANGED <<playerFiles, playerCols, available_weeks, started, posVars,
                   matchVars, data_dir_exists, unreadable, calls, scriptVars, logoVars>>

InitPeriods == ScriptIdle /\ ScriptsIdle /\ LogoIdle

NextPeriods ==
    \E window \in DateWindows :
        \E a, b \in window : CallGetWeekPeriods(FromOrdinal(a), FromOrdinal(b))

SpecPeriods == InitPeriods /\ [][NextPeriods]_vars

\* weekly_periods = get_week_periods(START_DATE, END_DATE)
SeasonPeriods == get_week_periods(START_DATE, END_DATE)

\* main(): os.makedirs and the weekly periods of the configured season.
MainStart ==
    /\ main.pc = "idle"
    /\ main' = [main EXCEPT !.pc = IF SeasonPeriods.raised # "" THEN "raised"
                                   ELSE IF SeasonPeriods.weeks = <<>> THEN "done"
                                   ELSE "running",
                            !.weekly_periods = SeasonPeriods.weeks,
                            !.week = 1]
    /\ UNCHANGED <<serverVars, posVars, logoVars, fetch, pool>>

\* One pass of "for week in weekly_periods": collect, unpack, save both files.
MainWeek(mens_df, womens_df) ==
    /\ main.pc = "running"
    /\ LET week == main.weekly_periods[main.week]
           returned == collect_player_data_for_period(mens_df, womens_df)
       IN  IF UnpacksInto(returned, 4)
           THEN main' = [main EXCEPT
                    !.returned = returned,
                    !.saved = main.saved \cup SavedNames(week.filename),
                    !.week = main.week + 1,
                    !.pc = IF main.week = Len(main.weekly_periods)
                           THEN "done" ELSE "running"]
           ELSE main' = [main EXCEPT !.returned = returned, !.pc = "raised"]
    /\ UNCHANGED <<serverVars, posVars, logoVars, fetch, pool>>

InitMain == ScriptIdle /\ ScriptsIdle /\ LogoIdle

\* The loop of main takes its next pass with whatever tables the collection returns.
MainLoop ==
    /\ main.pc = "running"
    /\ \E mens_df \in MensTables, womens_df \in WomensTables :
           MainWeek(mens_df, womens_df)

NextMain == MainStart \/ MainLoop

SpecMain == InitMain /\ [][NextMain]_vars /\ WF_vars(NextMain)

\* get_match_shots_sot_by_boxscore(boxscore_ids) is called.
StartFetch(boxscore_ids, json_error) ==
    /\ fetch.pc = "idle"
    /\ fetch' = [NoFetch EXCEPT !.pc = "for_bid", !.json_error = json_error,
                                !.todo = boxscore_ids]
    /\ UNCHANGED <<serverVars, posVars, logoVars, main, pool>>

\* "for bid in boxscore_ids": the next id, skipped when it is not a number; the
\* rows are returned when no id is left.
NextBid ==
    /\ fetch.pc = "for_bid"
    /\ fetch' =
           IF fetch.todo = <<>> THEN [fetch EXCEPT !.pc = "returned"]
           ELSE [fetch EXCEPT !.bid = Head(fetch.todo), !.todo = Tail(fetch.todo),
                              !.taken = Append(fetch.taken, Head(fetch.todo)),
                              !.attempt = 0, !.data = None, !.gets = <<>>,
                              !.slept = <<>>, !.curl = FALSE, !.appended = FALSE,
                              !.pc = IF isdigit(Head(fetch.todo))
                                     THEN "attempt" ELSE "for_bid"]
    /\ UNCHANGED <<serverVars, posVars, logoVars, main, pool>>

\* One pass of "for attempt in range(max_retries + 1)": the request and what the
\* loop does with its outcome.
Attempt(outcome) ==
    /\ fetch.pc = "attempt"
    /\ LET got == [fetch EXCEPT !.gets = Append(fetch.gets, outcome)]
           again == [got EXCEPT
                        !.slept = Append(fetch.slept, backoff * (fetch.attempt + 1)),
                        !.attempt = fetch.attempt + 1,
                        !.pc = IF fetch.attempt + 1 < max_retries + 1
                               THEN "attempt" ELSE "after_loop"]
       IN  fetch' =
               IF outcome.kind = "RequestException" THEN again
               ELSE IF outcome.status = 200
               THEN IF ParsesAsJson(outcome.body)
                    THEN [got EXCEPT !.data = ParseJson(outcome.body),
                                     !.pc = "after_loop"]
                    ELSE IF fetch.json_error = "RequestException" THEN again
                    ELSE [got EXCEPT !.pc = "raised"]
               ELSE IF ShouldRetry(outcome.status) THEN again
               ELSE [got EXCEPT !.pc = "after_loop"]
    /\ UNCHANGED <<serverVars, posVars, logoVars, main, pool>>

\* After the loop: curl as the last resort when data is None, then the row of
\* the id when the data holds a box score.
AfterLoop(curl_body) ==
    /\ fetch.pc = "after_loop"
    /\ LET data == IF fetch.data # None THEN fetch.data
                   ELSE IF ParsesAsJson(curl_body) THEN ParseJson(curl_body)
                   ELSE None
       IN  fetch' = [fetch EXCEPT
                        !.curl = (fetch.data = None),
                        !.data = data,
                        !.appended = HasBoxscore(data),
                        !.rows = IF HasBoxscore(data)
                                 THEN Append(fetch.rows, fetch.bid) ELSE fetch.rows,
                        !.pc = "for_bid"]
    /\ UNCHANGED <<serverVars, posVars, logoVars, main, pool>>

InitFetch == ScriptIdle /\ ScriptsIdle /\ LogoIdle

NextFetch ==
    \/ \E boxscore_ids \in SeqsUpTo(BoxscoreIds, MaxRows), json_error \in JsonErrorClasses :
           StartFetch(boxscore_ids, json_error)
    \/ NextBid
    \/ \E outcome \in HttpOutcomes : Attempt(outcome)
    \/ \E curl_body \in Bodies : AfterLoop(curl_body)

SpecFetch == InitFetch /\ [][NextFetch]_vars

\* The ids whose future is in the given state.
Futures(state) == {bid \in PoolIds : pool.future[bid] = state}

\* get_match_shots_sot_by_boxscore of the scripts copy: every id is submitted to
\* the executor; with no id the empty list is returned at once.
SubmitAll(boxscore_ids) ==
    /\ pool.pc = "idle"
    /\ pool' = [NoPool EXCEPT
                   !.pc = IF boxscore_ids = <<>> THEN "returned" ELSE "as_completed",
                   !.boxscore_ids = boxscore_ids,
                   !.future = [bid \in PoolIds |->
                                  IF \E i \in 1..Len(boxscore_ids) : boxscore_ids[i] = bid
                                  THEN "pending" ELSE "none"]]
    /\ UNCHANGED <<serverVars, posVars, logoVars, main, fetch>>

\* A free worker thread takes the oldest pending work item.
WorkerTakes(bid) ==
    /\ pool.future[bid] = "pending"
    /\ Cardinality(Futures("running")) < MAX_WORKERS
    /\ \A i, j \in 1..Len(pool.boxscore_ids) :
           (pool.boxscore_ids[j] = bid /\ i < j)
               => pool.future[pool.boxscore_ids[i]] # "pending"
    /\ pool' = [pool EXCEPT !.future[bid] = "running"]
    /\ UNCHANGED <<serverVars, posVars, logoVars, main, fetch>>

\* fetch_one(bid) ends in its worker thread: the future holds what it returned
\* or raised.
WorkerFinishes(bid, res) ==
    /\ pool.future[bid] = "running"
    /\ pool' = [pool EXCEPT !.future[bid] = "finished", !.result[bid] = res]
    /\ UNCHANGED <<serverVars, posVars, logoVars, main, fetch>>

\* One pass of "for fut in as_completed(futures)" in the calling thread: the
\* result of a finished future, appended when it is a row; result() raises what
\* fetch_one raised; after the last future the rows are returned.
Collect(bid) ==
    /\ pool.pc = "as_completed"
    /\ pool.future[bid] = "finished"
    /\ LET res == pool.result[bid]
       IN  pool' =
               IF res = "raised"
               THEN [pool EXCEPT !.future[bid] = "collected", !.pc = "raised"]
               ELSE [pool EXCEPT
                        !.future[bid] = "collected",
                        !.rows = IF Appends(res) THEN Append(pool.rows, bid)
                                 ELSE pool.rows,
                        !.done = pool.done + 1,
                        !.pc = IF pool.done + 1 = Len(pool.boxscore_ids)
                               THEN "returned" ELSE "as_completed"]
    /\ UNCHANGED <<serverVars, posVars, logoVars, main, fetch>>

InitPool == ScriptIdle /\ ScriptsIdle /\ LogoIdle

NextPool ==
    \/ \E boxscore_ids \in DistinctIds(MaxFiles) : SubmitAll(boxscore_ids)
    \/ \E bid \in PoolIds : WorkerTakes(bid)
    \/ \E bid \in PoolIds, res \in FetchResults : WorkerFinishes(bid, res)
    \/ \E bid \in PoolIds : Collect(bid)

SpecPool == InitPool /\ [][NextPool]_vars

(***************************************************************************)
(* The logo lookup of the application.                                     *)
(***************************************************************************)
\* scrape_ncaa_logos.py saves a logo into static/logos.
AddLogoFile(fname) ==
    /\ fname \notin logo_files
    /\ logo_files' = logo_files \cup {fname}
    /\ UNCHANGED <<serverVars, posVars, scriptVars, logo_index_cache>>

\* GET /_clear_template_cache: _logo_index.cache_clear()
ClearTemplateCache ==
    /\ logo_index_cache.built
    /\ logo_index_cache' = NoCache
    /\ UNCHANGED <<serverVars, posVars, scriptVars, logo_files>>

\* get_logo_path(team_name): the cached index (built at the first call), the
\* first pass, the rebuild and the second pass, the fuzzy fallback.
CallGetLogoPath(team_name) ==
    /\ \E idx \in (IF logo_index_cache.built THEN {logo_index_cache.index}
                    ELSE Indexes(logo_files)),
          listed \in Indexes(logo_files),
          fuzzy \in (IF FuzzyMatches(logo_files, team_name) = {} THEN {None}
                     ELSE {"logos/" \o f : f \in FuzzyMatches(logo_files, team_name)}) :
          LET call == [op |-> "get_logo_path", team_name |-> team_name,
                       warm |-> logo_index_cache.built, found |-> None,
                       builds |-> 0, clears |-> 0]
              first == IF logo_index_cache.built THEN 0 ELSE 1
              refreshed == refreshed_index(idx, listed)
          IN  IF Candidates(team_name) = <<>>
              THEN resp' = call /\ UNCHANGED logo_index_cache
              ELSE IF try_candidates(idx, team_name) # None
              THEN /\ resp' = [call EXCEPT !.found = try_candidates(idx, team_name),
                                           !.builds = first]
                   /\ logo_index_cache' = [built |-> TRUE, index |-> idx]
              ELSE /\ resp' = [call EXCEPT
                                  !.found = IF try_candidates(refreshed, team_name) # None
                                            THEN try_candidates(refreshed, team_name)
                                            ELSE fuzzy,
                                  !.builds = first + 1,
                                  !.clears = 1]
                   /\ logo_index_cache' = [built |-> TRUE, index |-> refreshed]
    /\ UNCHANGED <<playerFiles, playerCols, available_weeks, started, posVars,
                   matchVars, data_dir_exists, unreadable, calls, scriptVars, logo_files>>

InitLogo ==
    /\ ScriptIdle
    /\ ScriptsIdle
    /\ logo_files \in SUBSET {"Westmont.png"}
    /\ logo_index_cache = NoCache

NextLogo ==
    \/ \E fname \in LogoFileNames : AddLogoFile(fname)
    \/ ClearTemplateCache
    \/ \E team_name \in LogoTeams : CallGetLogoPath(team_name)

SpecLogo == InitLogo /\ [][NextLogo]_vars

(***************************************************************************)
(* Properties of the week index (SpecWeeks).                               *)
(***************************************************************************)
\* The file name endings of WeekTails that are a date written YYYYMMDD.
CalendarCodes == {20250817, 20250824, 20240229}
IndexedCodes == {available_weeks[i] : i \in 1..Len(available_weeks)}

\* C13: after startup the week index is in ascending date order without
\* repetition and holds exactly the 8-character codes of the player file names
\* that are calendar dates; other names are skipped, and an empty or absent
\* directory gives the empty index.
C13_WeekIndex ==
    started =>
        /\ \A i, j \in 1..Len(available_weeks) :
               i < j => DateBefore(available_weeks[i], available_weeks[j])
        /\ IndexedCodes = {c \in CalendarCodes : \E fn \in DOMAIN playerFiles : fn[2] = c}
        /\ (~data_dir_exists \/ playerFiles = <<>>) => available_weeks = <<>>

\* The men's and the women's file of one week and a file named after 29 February
\* 2025 gave an index of one week.
C13_Witness ==
    /\ started
    /\ {<<"mens", 20250817>>, <<"womens", 20250817>>} \subseteq DOMAIN playerFiles
    /\ \E fn \in DOMAIN playerFiles : fn[2] = 20250229
    /\ available_weeks = <<20250817>>

(***************************************************************************)
(* Properties of the weekly periods (SpecPeriods).                         *)
(***************************************************************************)
IsPeriods == resp.op = "get_week_periods"

\* The periods partition the days first..last in order, cut after each Sunday.
PartitionsByWeek(weeks, first, last) ==
    /\ Len(weeks) \in 1..(last - first + 1)
    /\ ToOrdinal(weeks[1].start) = first
    /\ ToOrdinal(weeks[Len(weeks)].end) = last
    /\ \A i \in 1..Len(weeks) :
           LET from == ToOrdinal(weeks[i].start)
               to == ToOrdinal(weeks[i].end)
           IN  /\ to - from + 1 \in 1..7
               /\ weekday(to) = 6 \/ to = last
               /\ weeks[i].filename = FilenameCode(weeks[i].end)
               /\ i < Len(weeks) => ToOrdinal(weeks[i + 1].start) = to + 1
    /\ \A i, j \in 1..Len(weeks) : i < j => weeks[i].filename < weeks[j].filename

\* 9999-12-26, the last Sunday that datetime can hold.
LastSunday == MAXORDINAL - 5

\* C26 (as stated): get_week_periods returns for every start and end; for
\* start <= end the periods partition the range in order (first starts at start,
\* last ends at end, each next starts the day after, each ends on a Sunday or
\* on end, each spans 1 to 7 days, filename codes distinct and ascending); for
\* start > end the list is empty.
C26_PeriodsPartitionRange ==
    IsPeriods =>
        /\ resp.result.raised = ""
        /\ IF ToOrdinal(resp.start) <= ToOrdinal(resp.end)
           THEN PartitionsByWeek(resp.result.weeks, ToOrdinal(resp.start),
                                 ToOrdinal(resp.end))
           ELSE resp.result.weeks = <<>>

\* C26 (amended): for start > end the list is empty; for start <= end with end
\* no later than 9999-12-26 the periods partition the range as stated; with a
\* later end the call raises OverflowError and returns nothing.
C26_PeriodsPartitionUpToLastSunday ==
    IsPeriods =>
        IF ToOrdinal(resp.start) > ToOrdinal(resp.end)
        THEN resp.result = [raised |-> "", weeks |-> <<>>]
        ELSE IF ToOrdinal(resp.end) <= LastSunday
        THEN /\ resp.result.raised = ""
             /\ PartitionsByWeek(resp.result.weeks, ToOrdinal(resp.start),
                                  ToOrdinal(resp.end))
        ELSE resp.result = [raised |-> "OverflowError", weeks |-> <<>>]

\* A range over the turn of the year came back as three periods: a short first
\* one, a full week, and a last one cut at the end date before its Sunday.
C26_Witness ==
    /\ IsPeriods
    /\ resp.result.raised = ""
    /\ Len(resp.result.weeks) = 3
    /\ resp.start[1] < resp.end[1]
    /\ ToOrdinal(resp.result.weeks[1].end) - ToOrdinal(resp.start) + 1 < 7
    /\ weekday(ToOrdinal(resp.result.weeks[2].end)) = 6
    /\ weekday(ToOrdinal(resp.end)) # 6

(***************************************************************************)
(* Properties of the boxscore fetch (SpecFetch).                           *)
(***************************************************************************)
\* The requests made so far for the id in hand, and those among them that
\* were followed by another request.
Gets == fetch.gets
Retried == IF fetch.pc = "attempt" THEN 1..Len(Gets) ELSE 1..(Len(Gets) - 1)

IsRetryStatus(get) == get.kind = "response" /\ get.status \in {403, 429, 503}
IsException(get) == get.kind = "RequestException"
IsBadJson(get) == get.kind = "response" /\ get.status = 200 /\ get.body = "not_json"
ProducedData(get) ==
    get.kind = "response" /\ get.status = 200 /\ get.body \in {"valid", "no_meta"}

\* What the claim and its amendment share: the number of requests, the delays,
\* the curl fallback and the rows.
FetchBookkeeping ==
    /\ Len(Gets) <= max_retries + 1
    /\ \A k \in 1..Len(fetch.slept) : fetch.slept[k] = backoff * k
    /\ Len(fetch.slept) \in {Len(Gets), Len(Gets) - 1}
    /\ Len(fetch.slept) >= Cardinality(Retried)
    /\ fetch.curl => \A k \in 1..Len(Gets) : ~ProducedData(Gets[k])
    /\ fetch.appended => fetch.data = "valid" /\ fetch.rows # <<>>
    /\ \A i \in 1..Len(fetch.rows) :
           /\ isdigit(fetch.rows[i])
           /\ \E k \in 1..Len(fetch.taken) : fetch.taken[k] = fetch.rows[i]
    /\ fetch.pc = "returned" => fetch.todo = <<>>

RowsOf(bid) == Cardinality({i \in 1..Len(pool.rows) : pool.rows[i] = bid})

\* C29: for distinct input ids the returned list holds exactly one row for every
\* id whose fetch_one returned data and no row for any other id, in whatever
\* order the workers finish and the futures are collected; until then no row is
\* held twice and every row held is the data of a finished fetch.
C29_OneRowPerFetchedId ==
    /\ \A bid \in PoolIds :
           /\ RowsOf(bid) <= 1
           /\ RowsOf(bid) = 1 =>
                  pool.future[bid] = "collected" /\ pool.result[bid] = "row"
    /\ pool.pc = "returned" =>
           \A bid \in PoolIds :
               RowsOf(bid) = IF pool.future[bid] # "none" /\ pool.result[bid] = "row"
                             THEN 1 ELSE 0

\* Three ids were submitted; the last one finished first, the second returned no
\* data, and the list returned holds the rows of the third and the first id in
\* the order of completion.
C29_Witness ==
    /\ pool.pc = "returned"
    /\ pool.boxscore_ids = <<"101", "102", "103">>
    /\ pool.result["102"] = None
    /\ pool.rows = <<"103", "101">>

(***************************************************************************)
(* Properties of the logo lookup (SpecLogo).                               *)
(***************************************************************************)
\* A step that is a get_logo_path call for a team name with candidates.
IsLogoCall ==
    /\ logo_files' = logo_files
    /\ resp' # resp \/ logo_index_cache' # logo_index_cache
    /\ resp'.op = "get_logo_path"
    /\ logo_index_cache'.built
    /\ Candidates(resp'.team_name) # <<>>

\* A candidate of the team name is the stem of a file in the logo directory,
\* letter case aside.
CandidateHasFile(team_name, files) ==
    \E i \in 1..Len(Candidates(team_name)) :
        \E f \in files : lower(Candidates(team_name)[i]) = FileKey(f)

\* C30: with the index cached, a lookup that finds a candidate in it returns the
\* indexed file and neither clears nor rebuilds the cache; a lookup that finds
\* none clears the cache and rebuilds the index exactly once, from the files
\* then in the logo directory, and returns 'logos/<filename>' of a file in the
\* directory if a candidate matches one.
C30_RebuildOnceOnMiss ==
    [][(IsLogoCall /\ logo_index_cache.built) =>
          IF try_candidates(logo_index_cache.index, resp'.team_name) # None
          THEN /\ resp'.clears = 0
               /\ resp'.builds = 0
               /\ resp'.found = try_candidates(logo_index_cache.index, resp'.team_name)
               /\ logo_index_cache' = logo_index_cache
          ELSE /\ resp'.clears = 1
               /\ resp'.builds = 1
               /\ logo_index_cache'.index \in Indexes(logo_files)
               /\ try_candidates(logo_index_cache'.index, resp'.team_name) # None
                      => resp'.found
                             = try_candidates(logo_index_cache'.index, resp'.team_name)
               /\ CandidateHasFile(resp'.team_name, logo_files)
                      => resp'.found \in {"logos/" \o f : f \in logo_files}]_vars

\* The index was cached before Miami_FL.png was saved: the lookup of Miami (FL)
\* missed the cached index, rebuilt it once and returned the new file.
C30_Witness ==
    /\ resp.op = "get_logo_path"
    /\ resp.team_name = "Miami (FL)"
    /\ resp.warm
    /\ resp.clears = 1
    /\ resp.builds = 1
    /\ resp.found = "logos/Miami_FL.png"

(***************************************************************************)
(* Properties of the player collection script (SpecMain).                  *)
(***************************************************************************)
\* The file names main is to save: a men's and a women's file per weekly period
\* between START_DATE and END_DATE.
ExpectedFiles ==
    LET weeks == SeasonPeriods.weeks
    IN  UNION {SavedNames(weeks[i].filename) : i \in 1..Len(weeks)}

\* C28: main saves, for every weekly period between START_DATE and END_DATE, one
\* men's and one women's player file from the two tables returned by
\* collect_player_data_for_period, and runs to completion.
C28_MainSavesEveryWeek ==
    <>(main.pc = "done" /\ main.saved = ExpectedFiles)

(***************************************************************************)
(* Properties of the player aggregator (checked under SpecPlayers).        *)
(***************************************************************************)
IsLoad == resp.op = "load_cumulative_data"

\* The snapshot rows of gender g in the files of the indexed weeks up to w, as
\* <<code, i>>: row i of the file of week code.
SnapshotRowsThrough(g, w) ==
    { p \in WeekCodes \X (1..MaxRows) :
        /\ p[1] <= w
        /\ \E k \in 1..Len(available_weeks) : available_weeks[k] = p[1]
        /\ PlayerFileName(g, p[1]) \in DOMAIN playerFiles
        /\ p[2] <= Len(playerFiles[PlayerFileName(g, p[1])]) }
RowAt(g, p) == playerFiles[PlayerFileName(g, p[1])][p[2]]

PlayerKey(r) == <<r.Name, r.Team, r.Gender>>
FullKey(r) == <<r.Name, r.Team, r.Gender, r.Division>>

RECURSIVE SumOver(_, _, _)
SumOver(S, g, col) ==
    IF S = {} THEN 0
    ELSE LET p == CHOOSE x \in S : TRUE
         IN  (IF Cell(RowAt(g, p), col) = <<>> THEN 0 ELSE Cell(RowAt(g, p), col)[1])
             + SumOver(S \ {p}, g, col)

PriorityOrder == <<"Goalkeeper", "Defender", "Midfielder", "Forward", "Unknown">>
Rank(lab) == CHOOSE i \in 1..Len(PriorityOrder) : PriorityOrder[i] = lab

\* C1 (as stated): each counting stat of a returned player is the sum of the stat
\* over all snapshot rows with the same (Name, Team, Gender) in the gender's files
\* of week code <= the cutoff.
C1_SumsPerPlayerKey ==
    IsLoad =>
        \A i \in 1..Len(resp.df.rows) :
            LET r == resp.df.rows[i]
                S == {p \in SnapshotRowsThrough(resp.gender, resp.end_week_code) :
                          PlayerKey(RowAt(resp.gender, p)) = PlayerKey(r)}
            IN  /\ r.Goals = SumOver(S, resp.gender, "Goals")
                /\ r.Assists = SumOver(S, resp.gender, "Assists")

\* C1 (amended): each counting stat of a returned row is the sum of the stat over
\* all snapshot rows with the same (Name, Team, Gender, Division) in the gender's
\* files of the indexed weeks with code <= the cutoff, and of no later week.
C1_SumsPerGroupThroughCutoff ==
    IsLoad =>
        \A i \in 1..Len(resp.df.rows) :
            LET r == resp.df.rows[i]
                S == {p \in SnapshotRowsThrough(resp.gender, resp.end_week_code) :
                          FullKey(RowAt(resp.gender, p)) = FullKey(r)}
            IN  /\ r.Goals = SumOver(S, resp.gender, "Goals")
                /\ r.Assists = SumOver(S, resp.gender, "Assists")

\* A returned row sums the rows of two weekly files (Goals 1 + 2), and the store
\* holds nothing else.
C1_Witness ==
    /\ IsLoad
    /\ \E i \in 1..Len(resp.df.rows) :
           /\ resp.df.rows[i].Goals = 3
           /\ resp.df.rows[i].Assists = 1
           /\ \E p, q \in SnapshotRowsThrough(resp.gender, resp.end_week_code) :
                  /\ p[1] < q[1]
                  /\ FullKey(RowAt(resp.gender, p)) = FullKey(resp.df.rows[i])
                  /\ FullKey(RowAt(resp.gender, q)) = FullKey(resp.df.rows[i])

\* The positions voted for by a set of snapshot rows, and the plurality winner
\* with ties broken by the priority order.
PositionVotes(S, g, lab) ==
    Cardinality({p \in S : RowAt(g, p).Dominant_Position = lab})
PluralityWinner(S, g) ==
    CHOOSE lab \in Labels :
        \A other \in Labels \ {lab} :
            \/ PositionVotes(S, g, other) < PositionVotes(S, g, lab)
            \/ /\ PositionVotes(S, g, other) = PositionVotes(S, g, lab)
               /\ Rank(lab) < Rank(other)

C7_OneRowPerPlayer ==
    IsLoad =>
        /\ \A i, j \in 1..Len(resp.df.rows) :
               i # j => PlayerKey(resp.df.rows[i]) # PlayerKey(resp.df.rows[j])
        /\ \A p \in SnapshotRowsThrough(resp.gender, resp.end_week_code) :
               \E i \in 1..Len(resp.df.rows) :
                   PlayerKey(resp.df.rows[i]) = PlayerKey(RowAt(resp.gender, p))

\* C7 (amended): exactly one returned row per (Name, Team, Gender, Division) of the
\* loaded snapshot rows that miss none of the four values; a player whose Division
\* differs between weeks is returned once per Division.
C7_OneRowPerGroup ==
    IsLoad =>
        /\ \A i, j \in 1..Len(resp.df.rows) :
               i # j => FullKey(resp.df.rows[i]) # FullKey(resp.df.rows[j])
        /\ \A p \in SnapshotRowsThrough(resp.gender, resp.end_week_code) :
               (\A k \in 1..4 : FullKey(RowAt(resp.gender, p))[k] # NaN) =>
                   \E i \in 1..Len(resp.df.rows) :
                       FullKey(resp.df.rows[i]) = FullKey(RowAt(resp.gender, p))
        /\ \A i \in 1..Len(resp.df.rows) :
               \E p \in SnapshotRowsThrough(resp.gender, resp.end_week_code) :
                   FullKey(resp.df.rows[i]) = FullKey(RowAt(resp.gender, p))

\* One player is returned twice, once as d1 and once as d2.
C7_Witness ==
    /\ IsLoad
    /\ \E i, j \in 1..Len(resp.df.rows) :
           /\ PlayerKey(resp.df.rows[i]) = PlayerKey(resp.df.rows[j])
           /\ resp.df.rows[i].Division = "d1"
           /\ resp.df.rows[j].Division = "d2"

\* C8: every row returned for a cutoff is returned for every later cutoff, with
\* each counting stat at least as large.
C8_CumulativeMonotonicity ==
    IsLoad =>
        \A w2 \in CutoffCodes :
            resp.end_week_code <= w2 =>
                LET later == load_cumulative_data(PlayerDir, available_weeks,
                                                  playerCols, w2, resp.gender)
                IN  \A i \in 1..Len(resp.df.rows) :
                        \E j \in 1..Len(later.rows) :
                            /\ FullKey(later.rows[j]) = FullKey(resp.df.rows[i])
                            /\ later.rows[j].Goals >= resp.df.rows[i].Goals
                            /\ later.rows[j].Assists >= resp.df.rows[i].Assists

\* A row returned for one cutoff has more goals at a later cutoff.
C8_Witness ==
    /\ IsLoad
    /\ \E w2 \in CutoffCodes :
           /\ resp.end_week_code < w2
           /\ LET later == load_cumulative_data(PlayerDir, available_weeks,
                                                playerCols, w2, resp.gender)
              IN  \E i \in 1..Len(resp.df.rows), j \in 1..Len(later.rows) :
                      /\ FullKey(later.rows[j]) = FullKey(resp.df.rows[i])
                      /\ later.rows[j].Goals > resp.df.rows[i].Goals

\* The stored rows behind a returned row: same group, indexed weeks up to the cutoff.
RowsBehind(r) ==
    {p \in SnapshotRowsThrough(resp.gender, resp.end_week_code) :
         FullKey(RowAt(resp.gender, p)) = FullKey(r)}

\* C17: with a Goals and an Assists column, every returned row has
\* Points = 2 * Goals + Assists of its summed Goals and Assists, whatever the
\* Points cells stored in the snapshot files add up to.
C17_PointsFromSums ==
    (IsLoad /\ {"Goals", "Assists"} \subseteq playerCols) =>
        \A i \in 1..Len(resp.df.rows) :
            LET r == resp.df.rows[i]
            IN  /\ "Points" \in resp.df.cols
                /\ r.Points = 2 * r.Goals + r.Assists
                /\ r.Points = 2 * SumOver(RowsBehind(r), resp.gender, "Goals")
                                + SumOver(RowsBehind(r), resp.gender, "Assists")

\* A returned row whose Points differ from the sum of its stored Points cells.
C17_Witness ==
    /\ IsLoad
    /\ {"Goals", "Assists", "Points"} \subseteq playerCols
    /\ \E i \in 1..Len(resp.df.rows) :
           /\ resp.df.rows[i].Points > 0
           /\ resp.df.rows[i].Points
                  # SumOver(RowsBehind(resp.df.rows[i]), resp.gender, "Points")

\* The total of a counting stat over the returned rows.
RECURSIVE ReturnedTotal(_, _)
ReturnedTotal(rows, col) ==
    IF rows = <<>> THEN 0 ELSE Head(rows)[col] + ReturnedTotal(Tail(rows), col)

\* C24: no loaded snapshot row is lost by the aggregation: with every grouping
\* column and the counting columns present, the total of each counting stat over
\* the returned rows equals its total over all loaded snapshot rows, rows with a
\* blank Division (or another blank grouping field) included.
C24_NoLoadedRowLost ==
    (IsLoad /\ {"Name", "Team", "Gender", "Division", "Goals", "Assists"} \subseteq playerCols) =>
        /\ ReturnedTotal(resp.df.rows, "Goals")
               = SumOver(SnapshotRowsThrough(resp.gender, resp.end_week_code),
                         resp.gender, "Goals")
        /\ ReturnedTotal(resp.df.rows, "Assists")
               = SumOver(SnapshotRowsThrough(resp.gender, resp.end_week_code),
                         resp.gender, "Assists")

\* The files of the gender that a call with cutoff w can read: files of indexed
\* weeks up to w that exist and parse.
ReadableFiles(g, w) ==
    { fn \in DOMAIN playerFiles \ unreadable :
        /\ fn[1] = FileGender(g)
        /\ fn[2] <= w
        /\ \E k \in 1..Len(available_weeks) : available_weeks[k] = fn[2] }
\* The store without the files that cannot be read.
RemainingFiles == [fn \in DOMAIN playerFiles \ unreadable |-> playerFiles[fn]]

\* C20: load_cumulative_data returns a table whatever files are absent or
\* unreadable: the result is the aggregate of the files that exist and can be
\* read, as if the others were not there; it is the empty table when no indexed
\* week is selected by the cutoff, when no selected file is read, or when the
\* data has no grouping column or no counting column.
C20_UnreadableFilesSkipped ==
    IsLoad =>
        /\ DOMAIN resp.df = {"cols", "rows"}
        /\ resp.df = load_cumulative_data(Directory(RemainingFiles, {}), available_weeks,
                                          playerCols, resp.end_week_code, resp.gender)
        /\ \A i \in 1..Len(resp.df.rows) :
               \E fn \in ReadableFiles(resp.gender, resp.end_week_code) :
                   \E j \in 1..Len(playerFiles[fn]) :
                       FullKey(playerFiles[fn][j]) = FullKey(resp.df.rows[i])
        /\ (\A k \in 1..Len(available_weeks) : available_weeks[k] > resp.end_week_code)
               => resp.df = EmptyFrame
        /\ ReadableFiles(resp.gender, resp.end_week_code) = {} => resp.df = EmptyFrame
        /\ playerCols \cap {"Name", "Team", "Gender", "Division"} = {} => resp.df = EmptyFrame
        /\ playerCols \cap {"Goals", "Assists"} = {} => resp.df = EmptyFrame

\* A call selected three indexed weeks: the file of one is absent for the gender,
\* the file of another is unreadable, and the rows of the third came back.
C20_Witness ==
    /\ IsLoad
    /\ Len(available_weeks) = 3
    /\ resp.end_week_code = available_weeks[3]
    /\ \E k \in 1..3 :
           PlayerFileName(resp.gender, available_weeks[k]) \notin DOMAIN playerFiles
    /\ \E k \in 1..3 : PlayerFileName(resp.gender, available_weeks[k]) \in unreadable
    /\ resp.df.rows # <<>>

(***************************************************************************)
(* Properties of the match aggregator (SpecMatches).                       *)
(***************************************************************************)
IsMatchLoad == resp.op = "load_match_data"

\* The positions <<week code, row number>> of the stored rows that a call for
\* gender g loads: rows of match files of indexed weeks, of that gender when
\* the files have a gender column.
LoadedPositions(g) ==
    { p \in UNION { {<<c, i>> : i \in 1..Len(matchFiles[c])} : c \in DOMAIN matchFiles } :
        /\ \E k \in 1..Len(available_weeks) : available_weeks[k] = p[1]
        /\ ("gender" \in matchCols =>
               /\ matchFiles[p[1]][p[2]].gender # NaN
               /\ Lower(matchFiles[p[1]][p[2]].gender) = Lower(g)) }
MatchAt(p) == matchFiles[p[1]][p[2]]
\* Load order: week files in ascending date order, row order within a file.
LoadsBefore(p, q) == p[1] < q[1] \/ (p[1] = q[1] /\ p[2] < q[2])
\* The returned row is the stored row, but for its division.
SameListing(out, stored) == WithDivision(out, stored.division) = stored

\* C3: when the boxscore_id column exists, no two returned matches share a
\* boxscore_id, every loaded id is returned, and the row returned for an id is
\* its first occurrence in load order.
C3_FirstOccurrenceKept ==
    (IsMatchLoad /\ "boxscore_id" \in matchCols) =>
        LET out == resp.df.rows
            loaded == LoadedPositions(resp.gender)
        IN  /\ \A i, j \in 1..Len(out) :
                   (out[i].boxscore_id # NaN /\ out[i].boxscore_id = out[j].boxscore_id)
                       => i = j
            /\ \A p \in loaded :
                   MatchAt(p).boxscore_id # NaN =>
                       \E i \in 1..Len(out) : out[i].boxscore_id = MatchAt(p).boxscore_id
            /\ \A i \in 1..Len(out) :
                   out[i].boxscore_id # NaN =>
                       \E p \in loaded :
                           /\ SameListing(out[i], MatchAt(p))
                           /\ \A q \in loaded :
                                  MatchAt(q).boxscore_id = out[i].boxscore_id
                                      => (q = p \/ LoadsBefore(p, q))

\* Two different listings of one game were loaded, and one row came back.
C3_Witness ==
    /\ IsMatchLoad /\ "boxscore_id" \in matchCols
    /\ \E p, q \in LoadedPositions(resp.gender) :
           /\ LoadsBefore(p, q)
           /\ MatchAt(p).boxscore_id = "12345" /\ MatchAt(q).boxscore_id = "12345"
           /\ MatchAt(p) # MatchAt(q)
    /\ Cardinality({i \in 1..Len(resp.df.rows) : resp.df.rows[i].boxscore_id = "12345"}) = 1

\* The stored rows of the gender in every match file of the directory, whether
\* or not the week of the file is in the week index.
PresentPositions(g) ==
    { p \in UNION { {<<c, i>> : i \in 1..Len(matchFiles[c])} : c \in DOMAIN matchFiles } :
        "gender" \in matchCols =>
            /\ matchFiles[p[1]][p[2]].gender # NaN
            /\ Lower(matchFiles[p[1]][p[2]].gender) = Lower(g) }
\* The stored row at p has come back: under its boxscore_id when duplicates are
\* dropped, as itself otherwise.
Represented(p, out) ==
    IF "boxscore_id" \in matchCols
    THEN \E i \in 1..Len(out) : out[i].boxscore_id = MatchAt(p).boxscore_id
    ELSE \E i \in 1..Len(out) : SameListing(out[i], MatchAt(p))

\* C11 as stated: the rows of every match file present are loaded, whatever
\* player snapshot files exist.
C11_EveryMatchFilePresent ==
    IsMatchLoad =>
        \A p \in PresentPositions(resp.gender) : Represented(p, resp.df.rows)

\* C11: the rows loaded are those of the match files whose week code is in the
\* week index (built from the player snapshot file names), filtered to the gender
\* without regard to case when the files have a gender column; a match file of a
\* week without a player snapshot file is not loaded.
C11_MatchFilesOfIndexedWeeks ==
    IsMatchLoad =>
        LET out == resp.df.rows
            loaded == LoadedPositions(resp.gender)
        IN  /\ \A p \in loaded : Represented(p, out)
            /\ \A i \in 1..Len(out) : \E p \in loaded : SameListing(out[i], MatchAt(p))
            /\ "boxscore_id" \notin matchCols => Len(out) = Cardinality(loaded)

\* A women's row written 'Women' came back for gender 'women' while the store
\* also holds a match file of a week that has no player snapshot file.
C11_Witness ==
    /\ IsMatchLoad /\ resp.gender = "women"
    /\ \E i \in 1..Len(resp.df.rows) : resp.df.rows[i].gender = "Women"
    /\ \E c \in DOMAIN matchFiles : \A k \in 1..Len(available_weeks) : available_weeks[k] # c

\* The division the two conferences of a row stand for, from the table.
DivisionOfConference(c) == conf_map(Lower(Strip(AsStr(c))))
CommonDivision(row) ==
    LET h == DivisionOfConference(row.home_conference)
        a == DivisionOfConference(row.away_conference)
    IN  IF h \in {"d1", "d2", "d3"} /\ h = a THEN h ELSE ""

\* C4 as stated: every returned match carries the common division of its two
\* conferences, or the empty string.
C4_DivisionFromConferences ==
    IsMatchLoad =>
        \A i \in 1..Len(resp.df.rows) :
            resp.df.rows[i].division = CommonDivision(resp.df.rows[i])

\* C4: when the match files have both conference columns, every returned match
\* carries the common division of its two conferences when both map and agree,
\* and the empty string otherwise; without one of the columns the division is
\* the scraped one.
C4_DivisionFromConferenceColumns ==
    IsMatchLoad =>
        \A i \in 1..Len(resp.df.rows) :
            LET out == resp.df.rows[i]
            IN  IF {"home_conference", "away_conference"} \subseteq matchCols
                THEN out.division = CommonDivision(out)
                ELSE \E p \in LoadedPositions(resp.gender) : out = MatchAt(p)

\* A cross-division game and a same-division game scraped under another
\* division both came back recomputed.
C4_Witness ==
    /\ IsMatchLoad
    /\ {"home_conference", "away_conference"} \subseteq matchCols
    /\ \E i \in 1..Len(resp.df.rows) :
           /\ resp.df.rows[i].home_conference = "ACC"
           /\ resp.df.rows[i].away_conference = "CACC"
           /\ resp.df.rows[i].division = ""
    /\ \E i \in 1..Len(resp.df.rows), p \in LoadedPositions(resp.gender) :
           /\ SameListing(resp.df.rows[i], MatchAt(p))
           /\ MatchAt(p).division = "d2"
           /\ resp.df.rows[i].division = "d1"

\* C25: when the combined match data lacks the home_conference or the
\* away_conference column, load_match_data recomputes no division: the result
\* has the columns of the files and every returned match is a stored match of
\* the gender exactly as scraped, its division cell included.
C25_NoRecomputeWithoutConferences ==
    (IsMatchLoad /\ ~({"home_conference", "away_conference"} \subseteq matchCols)) =>
        /\ resp.df.rows # <<>> => resp.df.cols = matchCols
        /\ \A i \in 1..Len(resp.df.rows) :
               \E p \in LoadedPositions(resp.gender) : resp.df.rows[i] = MatchAt(p)

\* Without the home (or the away) conference column a match came back with
\* the scraped division d1, where a recompute would have blanked it.
C25_Witness ==
    /\ IsMatchLoad
    /\ "division" \in matchCols
    /\ \E c \in {"home_conference", "away_conference"} :
           /\ c \notin matchCols
           /\ \E i \in 1..Len(resp.df.rows) :
                  /\ resp.df.rows[i].division = "d1"
                  /\ resp.df.rows[i][c] = NoCol

\* C23: with a boxscore_id column, a loaded match row is missing from the result
\* only when an earlier loaded row carries the same boxscore_id; every loaded
\* match without a boxscore_id is returned.
C23_OnlyRepeatedIdsDropped ==
    (IsMatchLoad /\ "boxscore_id" \in matchCols) =>
        \A p \in LoadedPositions(resp.gender) :
            \/ \E i \in 1..Len(resp.df.rows) : SameListing(resp.df.rows[i], MatchAt(p))
            \/ /\ MatchAt(p).boxscore_id # NaN
               /\ \E q \in LoadedPositions(resp.gender) :
                      /\ LoadsBefore(q, p)
                      /\ MatchAt(q).boxscore_id = MatchAt(p).boxscore_id

\* The match store with a copy of row put into the file of week code after its
\* first k rows (a new file when the week has none).
InsertRow(files, code, k, row) ==
    IF code \in DOMAIN files
    THEN [files EXCEPT ![code] = SubSeq(@, 1, k) \o <<row>> \o SubSeq(@, k + 1, Len(@))]
    ELSE [c \in DOMAIN files \cup {code} |-> IF c = code THEN <<row>> ELSE files[c]]
RowSet(rows) == {rows[i] : i \in 1..Len(rows)}
FileLen(files, code) == IF code \in DOMAIN files THEN Len(files[code]) ELSE 0

MatchIds(rows) == {rows[i].boxscore_id : i \in 1..Len(rows)}

\* C18: a second load_match_data call on the same files returns the same table;
\* with a boxscore_id column, putting a row that carries the boxscore_id of a
\* returned match anywhere into any weekly file changes neither the set of
\* returned matches (their boxscore_ids) nor their number, and the returned rows
\* themselves stay the same when the row is a copy of a returned row.
C18_DuplicateRowChangesNothing ==
    IsMatchLoad =>
        /\ load_match_data(matchFiles, available_weeks, matchCols, resp.gender) = resp.df
        /\ "boxscore_id" \in matchCols =>
               \A scraped \in ScrapedMatches :
                   LET row == WriteColumns(scraped, matchCols)
                   IN  (row.boxscore_id # NaN /\ row.boxscore_id \in MatchIds(resp.df.rows)) =>
                           \A code \in WeekCodes :
                               \A k \in 0..FileLen(matchFiles, code) :
                                   LET again == load_match_data(
                                                    InsertRow(matchFiles, code, k, row),
                                                    available_weeks, matchCols, resp.gender)
                                   IN  /\ MatchIds(again.rows) = MatchIds(resp.df.rows)
                                       /\ Len(again.rows) = Len(resp.df.rows)
                                       /\ (\E p \in LoadedPositions(resp.gender) :
                                              /\ MatchAt(p) = row
                                              /\ \E i \in 1..Len(resp.df.rows) :
                                                     SameListing(resp.df.rows[i], row))
                                              => RowSet(again.rows) = RowSet(resp.df.rows)

\* The same row with a boxscore_id was loaded from two weekly files and came back
\* once.
C18_Witness ==
    /\ IsMatchLoad /\ "boxscore_id" \in matchCols
    /\ \E p, q \in LoadedPositions(resp.gender) :
           /\ p[1] < q[1]
           /\ MatchAt(p) = MatchAt(q)
           /\ MatchAt(p).boxscore_id # NaN
           /\ Cardinality({i \in 1..Len(resp.df.rows) :
                              resp.df.rows[i].boxscore_id = MatchAt(p).boxscore_id}) = 1

(***************************************************************************)
(* Properties of the cached week index (SpecCache).                        *)
(***************************************************************************)
\* What a request returns is computed from the files of the indexed weeks only
\* (stated of the store as it is when the request is answered).
AggregatesUseIndexOnly ==
    /\ IsLoad =>
           \A i \in 1..Len(resp.df.rows) :
               LET r == resp.df.rows[i]
                   S == {p \in SnapshotRowsThrough(resp.gender, resp.end_week_code) :
                             FullKey(RowAt(resp.gender, p)) = FullKey(r)}
               IN  /\ S # {}
                   /\ r.Goals = SumOver(S, resp.gender, "Goals")
                   /\ r.Assists = SumOver(S, resp.gender, "Assists")
    /\ IsMatchLoad =>
           /\ \A p \in LoadedPositions(resp.gender) : Represented(p, resp.df.rows)
           /\ \A i \in 1..Len(resp.df.rows) :
                  \E p \in LoadedPositions(resp.gender) :
                      SameListing(resp.df.rows[i], MatchAt(p))

\* C14: the week index is built from the player file names at startup and no
\* later step changes it, whatever files are saved and whatever is requested; a
\* player or match file of a week that is not in the index is in no aggregate.
C14_IndexBuiltOnce ==
    /\ [][(~started /\ started') =>
             {available_weeks'[i] : i \in 1..Len(available_weeks')}
                 = {fn[2] : fn \in DOMAIN playerFiles}]_vars
    /\ [][started => available_weeks' = available_weeks]_vars
    /\ [][resp' # resp => AggregatesUseIndexOnly']_vars

\* A player file of a week that is not in the index is in the store, and so is
\* one of an indexed week, whose rows alone were aggregated.
C14_Witness ==
    /\ IsLoad /\ resp.df.rows # <<>>
    /\ \E fn \in DOMAIN playerFiles :
           /\ fn[2] \notin IndexedCodes
           /\ fn[2] <= resp.end_week_code
           /\ \E i \in 1..Len(playerFiles[fn]) :
                  \A j \in 1..Len(resp.df.rows) :
                      resp.df.rows[j].Name # playerFiles[fn][i].Name

(***************************************************************************)
(* Properties of the reconciliation and the routes (SpecRecon).            *)
(***************************************************************************)
\* The players listing for the week and gender of the last request.
ReconciledListing(week, gender) ==
    players(PlayerDir, available_weeks, playerCols, matchFiles, matchCols,
            week, gender)
HasTableEntry(conference) == DivisionOfConference(conference) # NaN

\* C5: in the players listing, a player whose resolved conference has an entry
\* in the conference-to-division table has that entry as final Division.
C5_MappedDivisionWins ==
    resp.op = "players" =>
        \A i \in 1..Len(resp.players) :
            HasTableEntry(resp.players[i].Conference) =>
                resp.players[i].Division
                    = DivisionOfConference(resp.players[i].Conference)

\* The division aggregation and the manual override have set for a stored row.
DivisionSetBefore(r) == IF r.Team = "Westmont" THEN "d2" ELSE r.Division
StoredPlayerRows ==
    UNION { {playerFiles[fn][i] : i \in 1..Len(playerFiles[fn])} : fn \in DOMAIN playerFiles }

AggregatedMatches(gender) ==
    load_match_data(matchFiles, available_weeks, matchCols, gender).rows
\* The four (name, conference) pairs of a match row, in scan order.
SlotName(m, slot) ==
    CASE slot = 1 -> m.home_team_short
      [] slot = 2 -> m.home_team_full
      [] slot = 3 -> m.away_team_short
      [] slot = 4 -> m.away_team_full
SlotConf(m, slot) == IF slot <= 2 THEN m.home_conference ELSE m.away_conference
\* The places <<row, slot>> that name the team with a non-empty conference.
Mentions(rows, team) ==
    { x \in (1..Len(rows)) \X (1..4) :
        /\ SlotName(rows[x[1]], x[2]) = team
        /\ SlotConf(rows[x[1]], x[2]) \notin {NaN, NoCol, ""} }
ScannedBefore(x, y) == x[1] < y[1] \/ (x[1] = y[1] /\ x[2] < y[2])

\* C19: in the players listing every player's Conference is the conference of
\* the first place, in row order and within a row home short, home full, away
\* short, away full, where the aggregated matches of the gender name the player's
\* Team with a non-empty conference; later different conferences for the name do
\* not replace it, and a Team never so named has no Conference.
C19_FirstConferenceWins ==
    resp.op = "players" =>
        LET rows == AggregatedMatches(resp.gender)
        IN  \A i \in 1..Len(resp.players) :
                LET r == resp.players[i]
                    S == Mentions(rows, r.Team)
                IN  IF S = {} THEN r.Conference = NaN
                    ELSE \E x \in S :
                            /\ \A y \in S : y = x \/ ScannedBefore(x, y)
                            /\ r.Conference = SlotConf(rows[x[1]], x[2])

\* A listed player's team is named with two different conferences by the
\* aggregated matches, and the player has the first of them.
C19_Witness ==
    /\ resp.op = "players"
    /\ LET rows == AggregatedMatches(resp.gender)
       IN  \E i \in 1..Len(resp.players) :
               \E x, y \in Mentions(rows, resp.players[i].Team) :
                   /\ x[1] < y[1]
                   /\ SlotConf(rows[x[1]], x[2]) # SlotConf(rows[y[1]], y[2])
                   /\ resp.players[i].Conference = SlotConf(rows[x[1]], x[2])

\* C6: the player detail API returns the reconciled Division of the player, and
\* the home page's top scorers and assisters are the players whose reconciled
\* Division is d1.
C6_ConsumersSeeReconciledDivision ==
    /\ (resp.op = "player_detail" /\ "Name" \in DOMAIN resp.body) =>
           \E r \in {ReconciledListing(resp.week, resp.gender)[i] :
                        i \in 1..Len(ReconciledListing(resp.week, resp.gender))} :
               /\ r.Name = resp.body.Name /\ r.Team = resp.body.Team
               /\ r.Goals = resp.body.Goals
               /\ r.Division = resp.body.Division
    /\ resp.op = "index" =>
           LET listing == ReconciledListing(LatestWeek(available_weeks), "men")
               d1 == {TopEntry(listing[i]) :
                         i \in {j \in 1..Len(listing) : listing[j].Division = "d1"}}
           IN  /\ {resp.men_top_scorers[i] : i \in 1..Len(resp.men_top_scorers)} = d1
               /\ {resp.men_top_assisters[i] : i \in 1..Len(resp.men_top_assisters)} = d1

(***************************************************************************)
(* Properties of concurrent requests (SpecConcurrent).                     *)
(***************************************************************************)
\* What the call of a thread returns when it runs alone.
AloneResult(c) ==
    IF c.op = "load_cumulative_data"
    THEN load_cumulative_data(PlayerDir, available_weeks, playerCols,
                              c.end_week_code, c.gender)
    ELSE load_match_data(matchFiles, available_weeks, matchCols, c.gender)

\* C22: with the snapshot files unchanged, every load_cumulative_data and
\* load_match_data call returns, under any interleaving with the calls of other
\* request threads, what it returns when run alone; and no step of a call
\* changes a player file, a match file or the cached week index.
C22_ConcurrentCallsSafe ==
    /\ [](\A t \in Threads : calls[t].done => calls[t].result = AloneResult(calls[t]))
    /\ [][calls' # calls =>
             /\ playerFiles' = playerFiles /\ unreadable' = unreadable
             /\ matchFiles' = matchFiles
             /\ available_weeks' = available_weeks]_vars

\* Two calls whose steps were interleaved have both returned rows, one from the
\* player files and one from the match files.
C22_Witness ==
    /\ calls[1].done /\ calls[2].done
    /\ calls[1].interleaved /\ calls[2].interleaved
    /\ calls[1].op = "load_cumulative_data" /\ calls[1].result.rows # <<>>
    /\ calls[2].op = "load_match_data" /\ calls[2].result.rows # <<>>

(***************************************************************************)
(* Properties of score formatting (SpecScore).                             *)
(***************************************************************************)
IsCleanCall == resp.op = "clean_score"
Chars == TextAlphabet \cup DigitChars \cup {"-", "i", "f"}
IsString(out) == out \in Seq(Chars)
Blank(chars) == \A i \in 1..Len(chars) : chars[i] = " "
\* A decimal numeral between optional blanks.
IsNumeral(chars) ==
    \E i \in 1..Len(chars), j \in 1..Len(chars) :
        /\ i <= j
        /\ Blank(SubSeq(chars, 1, i - 1)) /\ Blank(SubSeq(chars, j + 1, Len(chars)))
        /\ \A k \in i..j : chars[k] \in DigitChars \cup {"."}
        /\ Cardinality({k \in i..j : chars[k] = "."}) <= 1
        /\ \E k \in i..j : chars[k] \in DigitChars
\* The number a score stands for, as a pair <<m, e>> meaning m / 10^e.
IsNumber(score) ==
    \/ score.kind = "float"
    \/ score.kind = "str" /\ IsNumeral(score.chars)
NumberOf(score) == IF score.kind = "float" THEN score ELSE ParseFloat(score.chars)
SameNumber(x, y) == x.m * Pow10(y.e) = y.m * Pow10(x.e)
IsWhole(x) == \E n \in 0..x.m : x.m = n * Pow10(x.e)
NotANumber(score) ==
    \/ score.kind \in {"none", "nan"}
    \/ score.kind = "str" /\ ~IsNumeral(score.chars)
             /\ StripText(score.chars) \notin {<<"n", "a", "n">>, <<"i", "n", "f">>}

\* C16: clean_score returns a string for every score; a null, empty, blank or
\* unparseable score gives '-'; a finite whole number gives its integer digits
\* without a point (2.0 gives '2'); any other finite number gives its decimal
\* string, digits, a point and digits without a trailing zero (2.5 gives '2.5');
\* the floats inf and nan written as text give 'inf' and 'nan'.
C16_CleanScoreTotal ==
    IsCleanCall =>
        LET score == resp.score
            out == resp.out
        IN  /\ IsString(out) /\ out # <<>>
            /\ NotANumber(score) => out = <<"-">>
            /\ (IsNumber(score) /\ IsWhole(NumberOf(score))) =>
                  /\ IsDigits(out)
                  /\ Len(out) > 1 => out[1] # "0"
                  /\ SameNumber(Float(ParseNat(out), 0), NumberOf(score))
            /\ (IsNumber(score) /\ ~IsWhole(NumberOf(score))) =>
                  /\ IsNumeral(out)
                  /\ \E k \in 2..(Len(out) - 1) : out[k] = "."
                  /\ out[Len(out)] # "0"
                  /\ Len(out) > 2 /\ out[2] # "." => out[1] # "0"
                  /\ SameNumber(ParseFloat(out), NumberOf(score))
            /\ score = Float(20, 1) => out = <<"2">>
            /\ score = Float(25, 1) => out = <<"2", ".", "5">>
            /\ score = Text(<<>>) => out = <<"-">>
            /\ (score.kind = "inf" \/ (score.kind = "str" /\ StripText(score.chars) = <<"i", "n", "f">>))
                  => out = <<"i", "n", "f">>
            /\ (score.kind = "str" /\ StripText(score.chars) = <<"n", "a", "n">>)
                  => out = <<"n", "a", "n">>

\* The float 2.0 was formatted as '2'.
C16_Witness ==
    /\ IsCleanCall
    /\ resp.score = Float(20, 1)
    /\ resp.out = <<"2">>

(***************************************************************************)
(* Properties of the team page (SpecTeam).                                 *)
(***************************************************************************)
\* The stored games of the team, with the team's and the opponent's score cell.
TeamGames(team_slug) ==
    { m \in UNION { {matchFiles[c][i] : i \in 1..Len(matchFiles[c])} : c \in DOMAIN matchFiles } :
        _slugify(m.home_team_short) = team_slug \/ _slugify(m.away_team_short) = team_slug }
ScoreFor(m, team_slug) ==
    IF _slugify(m.home_team_short) = team_slug THEN m.home_team_score ELSE m.away_team_score
ScoreAgainst(m, team_slug) ==
    IF _slugify(m.home_team_short) = team_slug THEN m.away_team_score ELSE m.home_team_score
Scored(m) == m.home_team_score # <<>> /\ m.away_team_score # <<>>

\* C15: with home and away score columns, a game adds to wins, draws or losses
\* only when both scores are present; it adds a win for the higher score, a loss
\* for the lower and a draw for equal scores.
C15_RecordCountsScoredGamesOnly ==
    (/\ resp.op = "team_page"
     /\ resp.page.error = NoCol
     /\ {"home_team_score", "away_team_score"} \subseteq matchCols) =>
        LET t == resp.team_slug
            played == {m \in TeamGames(t) : Scored(m)}
        IN  /\ resp.page.stats.wins
                = Cardinality({m \in played : ScoreFor(m, t)[1] > ScoreAgainst(m, t)[1]})
            /\ resp.page.stats.draws
                = Cardinality({m \in played : ScoreFor(m, t)[1] = ScoreAgainst(m, t)[1]})
            /\ resp.page.stats.losses
                = Cardinality({m \in played : ScoreFor(m, t)[1] < ScoreAgainst(m, t)[1]})

ShotCols == {"home_shots", "home_sot", "away_shots", "away_sot"}
\* The total of the team's cells over a set of games: the cell of column own_home
\* when the team is at home, of column own_away otherwise; a game without a shots
\* row adds nothing.
RECURSIVE TotalOf(_, _, _, _)
TotalOf(games, team_slug, own_home, own_away) ==
    IF games = {} THEN 0
    ELSE LET m == CHOOSE x \in games : TRUE
             cell == IF _slugify(m.home_team_short) = team_slug
                     THEN m[own_home] ELSE m[own_away]
         IN  (IF cell = <<>> THEN 0 ELSE cell[1])
             + TotalOf(games \ {m}, team_slug, own_home, own_away)
\* n / d rounded to 3 decimal places, in thousandths: the thousandth nearest to
\* n / d.
IsRounded(t, n, d) ==
    /\ t \in 0..1000
    /\ 2 * (1000 * n - t * d) <= d
    /\ 2 * (t * d - 1000 * n) <= d

\* C21: on the team page TSR is shots_for / (shots_for + shots_against) of the
\* team's shot totals rounded to 3 decimal places, and 0 when the two totals add
\* up to 0; the shot-on-target ratio is the same from the on-target totals; both
\* lie between 0 and 1.
C21_ShotRatios ==
    (resp.op = "team_page" /\ resp.page.error = NoCol /\ ShotCols \subseteq matchCols) =>
        LET t == resp.team_slug
            games == TeamGames(t)
            sf == TotalOf(games, t, "home_shots", "away_shots")
            sa == TotalOf(games, t, "away_shots", "home_shots")
            tf == TotalOf(games, t, "home_sot", "away_sot")
            ta == TotalOf(games, t, "away_sot", "home_sot")
        IN  /\ resp.page.stats.tsr \in 0..1000
            /\ resp.page.stats.sotr \in 0..1000
            /\ IF sf + sa = 0 THEN resp.page.stats.tsr = 0
               ELSE IsRounded(resp.page.stats.tsr, sf, sf + sa)
            /\ IF tf + ta = 0 THEN resp.page.stats.sotr = 0
               ELSE IsRounded(resp.page.stats.sotr, tf, tf + ta)

(***************************************************************************)
(* Properties of the position vote (checked under SpecPositions).          *)
(***************************************************************************)
Computed == dominant # NotComputed

\* The votes of a label: the tags of the series that dominant_position_single
\* maps to it.
\* The label of every raw tag, tabulated once.
LabelOfTag == [tag \in RawTags |-> dominant_position_single(tag)]
Votes(lab) ==
    Cardinality({i \in 1..Len(positions_series) : LabelOfTag[positions_series[i]] = lab})

\* C9: the result has the largest vote count, comes first in the priority order
\* among the labels with that count, and is Unknown for an empty series.
C9_PluralityWithPriority ==
    Computed =>
        IF positions_series = <<>> THEN dominant = "Unknown"
        ELSE LET won == Votes(dominant)
             IN  /\ won > 0
                 /\ \A lab \in Labels :
                        /\ Votes(lab) <= won
                        /\ (Votes(lab) = won => Rank(dominant) <= Rank(lab))

\* Tags D and M seen equally often give Defender.
C9_Witness ==
    /\ Computed
    /\ dominant = "Defender"
    /\ Votes("Defender") = Votes("Midfielder")
    /\ \E i, j \in 1..Len(positions_series) :
           positions_series[i] = <<"D">> /\ positions_series[j] = <<"M">>

\* The keyword matches of a label totalled over the tags of the series.
RECURSIVE TotalMatches(_, _)
TotalMatches(series, lab) ==
    IF series = <<>> THEN 0
    ELSE (IF Head(series) = NaNTag THEN 0 ELSE KeywordCount(Head(series), lab))
         + TotalMatches(Tail(series), lab)

\* C10 (as stated): a tag counts toward every label whose keywords it matches, so
\* the result is the label with the largest total of matches over all tags.
C10_TagCountsTowardEachLabel ==
    (Computed /\ \E lab \in Labels \ {"Unknown"} : TotalMatches(positions_series, lab) > 0) =>
        \A lab \in Labels \ {"Unknown"} :
            /\ TotalMatches(positions_series, lab) <= TotalMatches(positions_series, dominant)
            /\ (TotalMatches(positions_series, lab) = TotalMatches(positions_series, dominant)
                    => Rank(dominant) <= Rank(lab))

\* The single label of a tag: Unknown when the tag is missing, empty or matches no
\* keyword, else the label with the most keyword matches in the tag, the first of
\* Midfielder, Defender, Forward, Goalkeeper on a tie.
SingleLabelOf(tag, lab) ==
    IF tag = NaNTag \/ tag = <<>> \/ \A l \in Labels \ {"Unknown"} : KeywordCount(tag, l) = 0
    THEN lab = "Unknown"
    ELSE \E i \in 1..Len(KeywordLabels) :
            /\ lab = KeywordLabels[i]
            /\ \A j \in 1..Len(KeywordLabels) :
                   /\ KeywordCount(tag, KeywordLabels[j]) <= KeywordCount(tag, lab)
                   /\ (j < i => KeywordCount(tag, KeywordLabels[j]) < KeywordCount(tag, lab))
SingleLabelTable == [tag \in RawTags |-> {lab \in Labels : SingleLabelOf(tag, lab)}]
SingleVotes(lab) ==
    Cardinality({i \in 1..Len(positions_series) : lab \in SingleLabelTable[positions_series[i]]})

\* C10 (amended): every tag is first reduced to its single label and gives one
\* vote to that label only; the result is the label with the most such votes.
C10_OneVotePerTag ==
    (Computed /\ positions_series # <<>>) =>
        LET won == SingleVotes(dominant)
        IN  /\ won > 0
            /\ \A lab \in Labels :
                   /\ SingleVotes(lab) <= won
                   /\ (SingleVotes(lab) = won => Rank(dominant) <= Rank(lab))

\* Tags MF, MF, F: Forward has three keyword matches and Midfielder two, yet the
\* result is Midfielder with two votes against one.
C10_Witness ==
    /\ Computed
    /\ dominant = "Midfielder"
    /\ TotalMatches(positions_series, "Forward") > TotalMatches(positions_series, "Midfielder")
    /\ SingleVotes("Midfielder") > SingleVotes("Forward")
    /\ \E i \in 1..Len(positions_series) : positions_series[i] = <<"M", "F">>

====
